---- MODULE Spec2Model ----
(***************************************************************************)
(* State-machine model of @toolplex/ai-engine's tool-invocation pipeline   *)
(* (core/ToolBuilder.ts, buildMCPTools), of its session registry           *)
(* (mcp/MCPClient.ts) and of its argument normalizer (utils/schema.ts).    *)
(*                                                                         *)
(* JavaScript runs the code single-threaded: one action of the model is    *)
(* the code that runs between two suspension points (an await), so the     *)
(* interleavings of the model are those of the event loop.                 *)
(*                                                                         *)
(*   Spec     one turn of buildMCPTools: the tool calls of the turn, the   *)
(*            turn's abort signal and the activeToolExecutions map.        *)
(*   CallSpec one execute() of the turn, with every answer and error the   *)
(*            host and the client can give it.                             *)
(*   RegSpec  one MCPClient: its sessions map, the transport's connections *)
(*            and the calls in progress on the client.                     *)
(*   SanSpec  deepSanitizeParams applied to a value, a schema and a field  *)
(*            name, and then to its own result.                            *)
(*   BuildSpec the tool set buildMCPTools makes of the descriptors a       *)
(*            server lists, each input schema going through                *)
(*            cleanToolSchema.                                             *)
(***************************************************************************)
EXTENDS Integers, Sequences, FiniteSets, TLC

\* ------------------------------------------------------------------ bounds
\* Tool calls issued by the streaming engine in the turn.
MaxCalls == 2
\* Largest value of Date.now() in the turn (the clock starts at 0).
MaxClock == 1
\* Calls on the client that may be in progress at once.
MaxProcs == 2
\* Calls made on the client in all.
MaxOps == 3
\* Nesting depth of the values and of the schemas given to deepSanitizeParams.
MaxDepth == 2
MaxSchemaDepth == 1
\* Nesting depth of the input schemas the server lists.
MaxNesting == 1
\* Tool descriptors the server lists.
MaxTools == 2
\* ChatEngine: the initialize() and shutdown() calls made on an engine, and
\* the stream() and initializeSession() calls that may be in progress at once.
MaxLifecycle == 5
MaxRuns == 2

VARIABLES
    \* ---- buildMCPTools (one turn)
    aborted,               \* abortSignal.aborted
    activeToolExecutions,  \* Map<toolExecutionId, AbortController>
    now,                   \* Date.now()
    interactive,           \* adapter.confirmations.isInteractive()
    onArgsEdited,          \* options.onArgsEdited is given
    modelId,               \* options.modelId
    calls,                 \* the execute() invocations of the turn
    \* ---- MCPClient
    sessions,              \* Map<sessionId, MCPSession>
    conns,                 \* the sessions the transport factory has created
    procs,                 \* the calls in progress on the client
    ops,                   \* calls made on the client so far
    imageHandler,          \* config.imageHandler and config.getCurrentUserId set
    \* ---- deepSanitizeParams
    san,                   \* one value, schema and field name, and the results
    \* ---- buildMCPTools (the tool set of a turn)
    build,                 \* the descriptors listed, and the tools built
    \* ---- ChatEngine
    engine                 \* the engine's flag, its adapter and its calls

options == <<interactive, onArgsEdited, modelId>>
toolVars == <<aborted, activeToolExecutions, now, options, calls>>
regVars == <<sessions, conns, procs, ops, imageHandler>>
sanVars == <<san>>
buildVars == <<build>>
engineVars == <<engine>>
vars == <<toolVars, regVars, sanVars, buildVars, engineVars>>

\* ------------------------------------------------------------ Map helpers
\* Map.prototype.set: an existing key is overwritten.
MapSet(m, k, v) == [x \in (DOMAIN m) \cup {k} |-> IF x = k THEN v ELSE m[x]]

\* Map.prototype.delete: deleting an absent key changes nothing.
MapDelete(m, k) == [x \in (DOMAIN m) \ {k} |-> m[x]]

\* new Map()
EmptyMap == [x \in {} |-> 0]

\* ---------------------------------------------------- deepSanitizeParams
\* JavaScript's undefined, as a schema type, a field name or a missing schema.
Undefined == "undefined"

\* JSON values. A string is known by what the code asks of it: whether, trimmed,
\* it starts with "{" or "[", and what JSON.parse makes of it.
SyntaxError == [t |-> "SyntaxError"]
JNull == [t |-> "null"]
JPrim == [t |-> "primitive"]
JText == [t |-> "string", looks |-> FALSE, doc |-> SyntaxError]
JBroken == [t |-> "string", looks |-> TRUE, doc |-> SyntaxError]
JEncoded(v) == [t |-> "string", looks |-> TRUE, doc |-> v]
JArr(items) == [t |-> "array", items |-> items]
JObj(fields) == [t |-> "object", fields |-> fields]

\* Line 47: trimmed.startsWith("{") || trimmed.startsWith("[")
LooksLikeJSON(str) == str.looks

\* JSON.parse(params) of lines 58 and 71, and whether it throws.
JSONParseThrows(str) == str.doc = SyntaxError
JSONParse(str) == str.doc

\* A missing schema, and the reads schema?.type, schema?.items and
\* (schema?.properties || {})[key].
NoSchema == [type |-> Undefined]
SchemaType(schema) == schema.type
SchemaItems(schema) ==
    IF "items" \in DOMAIN schema THEN schema.items ELSE NoSchema
SchemaProperty(schema, key) ==
    IF "properties" \in DOMAIN schema /\ key \in DOMAIN schema.properties
    THEN schema.properties[key]
    ELSE NoSchema

\* Line 50 never true: a declared string type does not stop the reparse rules.
DeclaredStringIgnored(schema) == FALSE

\* Line 50: schema?.type === "string"
DeclaredString(schema) == SchemaType(schema) = "string"

\* Line 56 without its second operand.
DeclaredObjectOnly(schema) == SchemaType(schema) = "object"

\* Line 56: schema?.type === "object" || schema?.type === "array"
DeclaredStructure(schema) == SchemaType(schema) \in {"object", "array"}

\* Line 69 true of every field name.
AnyFieldIsArguments(fieldName) == TRUE

\* Line 69: fieldName === "arguments"
IsArgumentsField(fieldName) == fieldName = "arguments"

\* Lines 59 and 81 returning the parsed value as it is.
ParsedReturnedAsIs(parsed, schema, fieldName) == parsed

\* Lines 60-63 and 84-90 returning null for a string that does not parse.
InvalidJSONDropped(params) == JNull

\* Lines 60-63 and 84-90: the catch returns the string as it is.
InvalidJSON(params) == params

RECURSIVE DeepSanitizeParams(_, _, _)

\* Lines 59 and 81: the parsed value goes through deepSanitizeParams with the
\* same schema and field name.
SanitizeParsed(parsed, schema, fieldName) ==
    DeepSanitizeParams(parsed, schema, fieldName)

\* Lines 32-122.
DeepSanitizeParams(params, schema, fieldName) ==
    CASE params.t = "null" -> params
      [] params.t = "string" ->
            IF ~LooksLikeJSON(params) THEN params
            ELSE IF DeclaredString(schema) THEN params
            ELSE IF DeclaredStructure(schema) \/ IsArgumentsField(fieldName)
                 THEN IF JSONParseThrows(params) THEN InvalidJSON(params)
                      ELSE SanitizeParsed(JSONParse(params), schema, fieldName)
            ELSE params
      [] params.t = "array" ->
            JArr([i \in DOMAIN params.items |->
                     DeepSanitizeParams(params.items[i], SchemaItems(schema),
                                        fieldName)])
      [] params.t = "object" ->
            JObj([key \in DOMAIN params.fields |->
                     DeepSanitizeParams(params.fields[key],
                                        SchemaProperty(schema, key), key)])
      [] OTHER -> params

\* The values given to the function: the leaves, the arrays and objects of at
\* most one member over the values one level down, and the strings that encode
\* such an array or object.
PropertyNames == {"config", "arguments"}
FieldNames == PropertyNames \cup {Undefined}
Leaves == {JNull, JPrim, JText, JBroken}

Structures(members) ==
    {JArr(<< >>), JObj(EmptyMap)}
        \cup {JArr(<<v>>) : v \in members}
        \cup {JObj([key \in {k} |-> v]) : k \in PropertyNames, v \in members}

RECURSIVE ValuesOfDepth(_)
ValuesOfDepth(d) ==
    IF d = 0 THEN Leaves
    ELSE LET structures == Structures(ValuesOfDepth(d - 1))
         IN  Leaves \cup structures \cup {JEncoded(v) : v \in structures}

\* The schemas: a type or none, an array type with an item schema, an object
\* type with the schema of one property.
SchemaTypes == {Undefined, "string", "object", "array"}

RECURSIVE SchemasOfDepth(_)
SchemasOfDepth(d) ==
    IF d = 0 THEN {[type |-> t] : t \in SchemaTypes}
    ELSE LET below == SchemasOfDepth(d - 1)
         IN  {[type |-> t] : t \in SchemaTypes}
                 \cup {[type |-> "array", items |-> s] : s \in below}
                 \cup {[type |-> "object", properties |-> [key \in {k} |-> s]] :
                          k \in PropertyNames, s \in below}

\* No call made yet.
NotRun == [t |-> "not run"]

SanIdle ==
    san = [params |-> JNull, schema |-> NoSchema, fieldName |-> Undefined,
           once |-> NotRun, twice |-> NotRun]

SanInit ==
    \E x \in ValuesOfDepth(MaxDepth), s \in SchemasOfDepth(MaxSchemaDepth),
       f \in FieldNames :
        san = [params |-> x, schema |-> s, fieldName |-> f,
               once |-> NotRun, twice |-> NotRun]

\* deepSanitizeParams(params, schema, fieldName)
Sanitize ==
    /\ san.once = NotRun
    /\ san' = [san EXCEPT !.once =
                  DeepSanitizeParams(san.params, san.schema, san.fieldName)]
    /\ UNCHANGED <<toolVars, regVars, buildVars, engineVars>>

\* deepSanitizeParams applied to its own result, with the same schema and
\* field name.
SanitizeAgain ==
    /\ san.once # NotRun
    /\ san.twice = NotRun
    /\ san' = [san EXCEPT !.twice =
                  DeepSanitizeParams(san.once, san.schema, san.fieldName)]
    /\ UNCHANGED <<toolVars, regVars, buildVars, engineVars>>

\* -------------------------------------------------------- cleanToolSchema
\* A schema is a JSON document: objects and arrays as above, and strings known
\* by their text. The text of a $ref is kept in its parts, "#", the keyword and
\* the name, which is what the pattern of line 162 takes from it.
SchemaString(text) == [t |-> "string", text |-> text]
RefTo(keyword, defName) == SchemaString(<<"#", keyword, defName>>)

\* The errors the cleaning can end with instead of a schema.
RangeError == [t |-> "RangeError"]

\* { ...a, ...b }
Spread(a, b) ==
    [key \in (DOMAIN a) \cup (DOMAIN b) |-> IF key \in DOMAIN b THEN b[key] ELSE a[key]]

\* const { [key]: _, ...rest } = fields, and delete fields[key]
Without(fields, key) == [k \in (DOMAIN fields) \ {key} |-> fields[k]]

\* The number of logger.warn calls made for the members of a set.
RECURSIVE SumOver(_, _)
SumOver(count, members) ==
    IF members = {} THEN 0
    ELSE LET m == CHOOSE x \in members : TRUE
         IN  count[m] + SumOver(count, members \ {m})

\* JavaScript's undefined, as a missing defs argument or a missing inputSchema.
JUndefined == [t |-> "undefined"]

\* Lines 149-151: if (!defs && schema.$defs) defs = schema.$defs
DefsOf(defs, schema) ==
    IF defs = JUndefined /\ schema.t = "object" /\ "$defs" \in DOMAIN schema.fields
    THEN schema.fields["$defs"]
    ELSE defs

\* Line 159: schema.$ref && typeof schema.$ref === "string"
IsRef(schema) ==
    /\ schema.t = "object"
    /\ "$ref" \in DOMAIN schema.fields
    /\ schema.fields["$ref"].t = "string"

\* Line 162: the pattern ^#\/(\$defs|definitions)\/(.+)$ matches the text.
RefMatch(ref) == ref.text[2] \in {"$defs", "definitions"} /\ ref.text[1] = "#"

\* Lines 164-168: the pattern matches, defs is set and defs[defName] is there.
Resolvable(schema, defs) ==
    /\ RefMatch(schema.fields["$ref"])
    /\ defs # JUndefined
    /\ schema.fields["$ref"].text[3] \in DOMAIN defs.fields

\* Line 166: defs[defName]
ResolvedDef(schema, defs) == defs.fields[schema.fields["$ref"].text[3]]

\* Line 172 recurses once more for every definition that refers to a
\* definition. With n definitions, more than n such calls inside one another
\* repeat a definition under the same defs, so they never end: the call stack
\* overflows.
StackOverflows(defs, inlined) ==
    defs # JUndefined /\ inlined > Cardinality(DOMAIN defs.fields)

\* Lines 141-197, `inlined` counting the calls of line 172 the call is inside.
\* A definition is an object, so that what line 173 spreads is an object.
RECURSIVE ResolveSchemaRefs(_, _, _)
ResolveSchemaRefs(schema, defs0, inlined) ==
    LET defs == DefsOf(defs0, schema)
    IN  CASE schema.t = "array" ->
                LET items == [i \in DOMAIN schema.items |->
                                 ResolveSchemaRefs(schema.items[i], defs, inlined)]
                IN  IF \E i \in DOMAIN items : items[i] = RangeError
                    THEN RangeError
                    ELSE JArr(items)
          [] schema.t = "object" /\ IsRef(schema) ->
                IF Resolvable(schema, defs)
                THEN IF StackOverflows(defs, inlined + 1) THEN RangeError
                     ELSE LET resolved ==
                                  ResolveSchemaRefs(ResolvedDef(schema, defs),
                                                    defs, inlined + 1)
                          IN  IF resolved = RangeError THEN RangeError
                              ELSE JObj(Spread(resolved.fields,
                                               Without(schema.fields, "$ref")))
                ELSE JObj(EmptyMap)
          [] schema.t = "object" /\ ~IsRef(schema) ->
                LET result == [key \in DOMAIN schema.fields |->
                                  IF key \in {"$defs", "definitions"}
                                  THEN schema.fields[key]
                                  ELSE ResolveSchemaRefs(schema.fields[key],
                                                         defs, inlined)]
                IN  IF \E key \in DOMAIN result : result[key] = RangeError
                    THEN RangeError
                    ELSE JObj(result)
          [] OTHER -> schema

\* The logger.warn calls of line 178 made by resolveSchemaRefs(schema, defs),
\* for a call that returns.
RECURSIVE UnresolvedRefs(_, _)
UnresolvedRefs(schema, defs0) ==
    LET defs == DefsOf(defs0, schema)
    IN  CASE schema.t = "array" ->
                SumOver([i \in DOMAIN schema.items |->
                            UnresolvedRefs(schema.items[i], defs)],
                        DOMAIN schema.items)
          [] schema.t = "object" /\ IsRef(schema) ->
                IF Resolvable(schema, defs)
                THEN UnresolvedRefs(ResolvedDef(schema, defs), defs)
                ELSE 1
          [] schema.t = "object" /\ ~IsRef(schema) ->
                SumOver([key \in DOMAIN schema.fields |->
                            IF key \in {"$defs", "definitions"} THEN 0
                            ELSE UnresolvedRefs(schema.fields[key], defs)],
                        DOMAIN schema.fields)
          [] OTHER -> 0

\* Lines 219-226 alone: const, enum and required are copied.
SkippedCombinators(fields, key) == key \in {"oneOf", "anyOf", "allOf"}

\* Lines 219-236: the keys sanitizeSchemaForGemini leaves out of a node.
SkippedForGemini(fields, key) ==
    \/ key \in {"oneOf", "anyOf", "allOf", "const"}
    \/ key = "enum" /\ ~("type" \in DOMAIN fields
                         /\ fields["type"] = SchemaString("string"))
    \/ key = "required"

\* Lines 265-267: result.type === "object" && !result.properties
NeedsProperties(result) ==
    /\ "type" \in DOMAIN result
    /\ result["type"] = SchemaString("object")
    /\ "properties" \notin DOMAIN result

\* Lines 209-270. A properties value is an object where it is present.
RECURSIVE SanitizeSchemaForGemini(_)
SanitizeSchemaForGemini(schema) ==
    CASE schema.t = "array" ->
            JArr([i \in DOMAIN schema.items |->
                     SanitizeSchemaForGemini(schema.items[i])])
      [] schema.t = "object" ->
            LET kept == {key \in DOMAIN schema.fields :
                            ~SkippedForGemini(schema.fields, key)}
                result == [key \in kept |->
                              IF key = "properties"
                              THEN JObj([propName \in DOMAIN schema.fields[key].fields |->
                                            SanitizeSchemaForGemini(
                                                schema.fields[key].fields[propName])])
                              ELSE SanitizeSchemaForGemini(schema.fields[key])]
            IN  IF NeedsProperties(result)
                THEN JObj(Spread(result, [key \in {"properties"} |-> JObj(EmptyMap)]))
                ELSE JObj(result)
      [] OTHER -> schema

\* Line 291: the schema returned for a missing one.
DefaultSchema ==
    JObj([key \in {"type", "properties"} |->
             IF key = "type" THEN SchemaString("object") ELSE JObj(EmptyMap)])

\* Lines 285-307. The clone of line 295 is of a JSON document, which the
\* values here are; the deletes of lines 296, 302 and 303 are of own keys of
\* the root.
CleanToolSchema(schema, isGemini) ==
    IF schema = JUndefined THEN DefaultSchema
    ELSE LET cleanedSchema == JObj(Without(schema.fields, "$schema"))
             resolvedSchema == ResolveSchemaRefs(cleanedSchema, JUndefined, 0)
             stripped == JObj(Without(Without(resolvedSchema.fields, "$defs"),
                                      "definitions"))
         IN  IF resolvedSchema = RangeError THEN RangeError
             ELSE IF isGemini THEN SanitizeSchemaForGemini(stripped)
             ELSE stripped

\* The logger.warn calls cleanToolSchema makes through line 299.
Diagnostics(schema) ==
    IF schema = JUndefined THEN 0
    ELSE IF ResolveSchemaRefs(JObj(Without(schema.fields, "$schema")), JUndefined, 0)
               = RangeError
         THEN 0
    ELSE UnresolvedRefs(JObj(Without(schema.fields, "$schema")), JUndefined)

\* isGoogleGeminiModel(modelId). A model id is known by the provider before its
\* "/" (none: "") and by the family its name starts with.
ModelId(provider, family) == [provider |-> provider, family |-> family]
IsGoogleGeminiModel(model) ==
    \/ model.provider = "google"
    \/ model.provider = "" /\ model.family = "gemini"

\* The schemas a server lists. One key, and two keys, of an object:
Node(key, value) == JObj([k \in {key} |-> value])
Typed(type) == Node("type", SchemaString(type))
With(schema, key, value) == JObj(Spread(schema.fields, [k \in {key} |-> value]))

DefNames == {"A", "B"}
Refs ==
    {RefTo("$defs", "A"), RefTo("definitions", "A"), RefTo("$defs", "Missing"),
     RefTo("components", "A")}

SchemaLeaves ==
    {Typed("string"), Typed("object"),
     With(Typed("string"), "enum", JArr(<<SchemaString("a")>>)),
     With(Typed("integer"), "enum", JArr(<<JPrim>>)),
     Node("const", JPrim),
     With(Typed("object"), "required", JArr(<<SchemaString("x")>>)),
     With(Node("$ref", RefTo("$defs", "A")), "description", SchemaString("text"))}
        \cup {Node("$ref", ref) : ref \in Refs}

\* The property names include one that is also a keyword of JSON Schema.
SchemaPropertyNames == {"x", "required"}
Combinators == {"oneOf", "anyOf", "allOf"}

SchemasOver(below) ==
    {With(Typed("object"), "properties", Node(p, s)) :
        p \in SchemaPropertyNames, s \in below}
        \cup {With(Typed("array"), "items", s) : s \in below}
        \cup {With(Typed("object"), "additionalProperties", s) : s \in below}
        \cup {Node(c, JArr(<<s>>)) : c \in Combinators, s \in below}

RECURSIVE SchemasOfNesting(_)
SchemasOfNesting(d) ==
    IF d = 0 THEN SchemaLeaves
    ELSE SchemaLeaves \cup SchemasOver(SchemasOfNesting(d - 1))

\* The definitions maps: one definition, a chain of two, a definition that
\* refers to itself, two that refer to each other, and one to be cleaned.
DefinitionMaps(keyword) ==
    {Node("A", Typed("string")),
     With(Node("A", Node("$ref", RefTo(keyword, "B"))), "B", Typed("object")),
     Node("A", Node("$ref", RefTo(keyword, "A"))),
     With(Node("A", Node("$ref", RefTo(keyword, "B"))),
          "B", Node("$ref", RefTo(keyword, "A"))),
     Node("A", With(Typed("object"), "const", JPrim))}

RootSchemas ==
    LET plain == SchemasOfNesting(MaxNesting)
    IN  plain
          \cup {With(s, keyword, defs) :
                   s \in plain, keyword \in {"$defs", "definitions"},
                   defs \in DefinitionMaps("$defs") \cup DefinitionMaps("definitions")}
          \cup {With(Typed("object"), "$schema", SchemaString("draft"))}

\* ------------------------------------------- buildMCPTools, the tool set
\* The descriptors of adapter.mcp.listTools(sessionId).
Descriptor(name, inputSchema) == [name |-> name, inputSchema |-> inputSchema]
ListedNames == {"initialize_toolplex", "search_servers", "install_server"}

\* Line 55: the default of hiddenTools, which ChatEngine's config repeats.
HiddenByDefault == {"initialize_toolplex"}

\* Lists of one descriptor with each of the schemas, and lists of up to
\* MaxTools descriptors with each of the names, hidden names and names that
\* repeat included.
RECURSIVE ListsOfLength(_)
ListsOfLength(n) ==
    IF n = 0 THEN {<< >>}
    ELSE {Append(l, Descriptor(name, inputSchema)) :
             l \in ListsOfLength(n - 1), name \in ListedNames,
             inputSchema \in {JUndefined, Node("$ref", RefTo("$defs", "Missing"))}}

DescriptorLists ==
    {<<Descriptor("search_servers", s)>> : s \in RootSchemas}
        \cup UNION {ListsOfLength(n) : n \in 0..MaxTools}

\* buildMCPTools has not returned.
NotBuilt == [t |-> "not built"]
\* adapter.mcp.listTools has rejected, and buildMCPTools with it.
ListToolsError == [t |-> "listTools rejected"]

BuildIdle ==
    build = [modelId |-> ModelId("", ""), hiddenTools |-> {}, listed |-> << >>,
             tools |-> NotBuilt, warnings |-> 0]

BuildInit ==
    \E model \in {ModelId("google", "gemini"), ModelId("", "gemini"),
                    ModelId("openai", "gpt-")},
       hiddenTools \in {HiddenByDefault, {"search_servers"}},
       listed \in DescriptorLists :
        build = [modelId |-> model, hiddenTools |-> hiddenTools,
                 listed |-> listed, tools |-> NotBuilt, warnings |-> 0]

\* Line 97 never true.
NothingHidden(hiddenTools, mcpTool) == FALSE

\* Line 97: hiddenTools.includes(mcpTool.name)
Hidden(hiddenTools, mcpTool) == mcpTool.name \in hiddenTools

\* Lines 101-104: mcpTool.inputSchema || { type: "object", properties: {} }
ToolSchema(mcpTool) ==
    IF mcpTool.inputSchema = JUndefined THEN DefaultSchema
    ELSE mcpTool.inputSchema

\* Line 105 for the descriptor at position i.
FinalSchema(b, i) ==
    CleanToolSchema(ToolSchema(b.listed[i]), IsGoogleGeminiModel(b.modelId))

\* The positions the loop of lines 95-272 builds a tool for.
Visible(b) == {i \in DOMAIN b.listed : ~Hidden(b.hiddenTools, b.listed[i])}

\* Line 107: aiSdkTools[mcpTool.name] = tool(...), a later descriptor of the
\* same name taking the place of an earlier one.
AiSdkTools(b) ==
    LET names == {b.listed[i].name : i \in Visible(b)}
        last(name) == CHOOSE i \in Visible(b) :
                          /\ b.listed[i].name = name
                          /\ \A j \in Visible(b) :
                                b.listed[j].name = name => j <= i
    IN  [name \in names |-> [inputSchema |-> FinalSchema(b, last(name))]]

\* await adapter.mcp.listTools(sessionId) resolves and the loop runs to its
\* end, or to the first cleanToolSchema that throws: buildMCPTools then rejects
\* with the error.
BuildMCPTools ==
    /\ build.tools = NotBuilt
    /\ LET thrown == {i \in Visible(build) : FinalSchema(build, i) = RangeError}
           cleaned == {i \in Visible(build) : \A j \in thrown : i < j}
       IN  build' = [build EXCEPT
                        !.tools = IF thrown = {} THEN AiSdkTools(build)
                                  ELSE RangeError,
                        !.warnings =
                            SumOver([i \in cleaned |->
                                        Diagnostics(ToolSchema(build.listed[i]))],
                                    cleaned)]
    /\ UNCHANGED <<toolVars, regVars, sanVars, engineVars>>

\* await adapter.mcp.listTools(sessionId) rejects.
ListToolsFailed ==
    /\ build.tools = NotBuilt
    /\ build' = [build EXCEPT !.tools = ListToolsError]
    /\ UNCHANGED <<toolVars, regVars, sanVars, engineVars>>

\* ----------------------------------------------------- buildMCPTools
Calls == 1..MaxCalls

\* The remote tool descriptors of the turn that are not hidden.
ToolNames == {"install_server", "search_servers"}

\* The tool names checkToolConfirmation knows, and the names one call is
\* invoked with.
SensitiveTools ==
    {"install_server", "install_mcp_server", "uninstall_server",
     "uninstall_mcp_server", "save_playbook", "submit_feedback"}
CallToolNames == ToolNames \cup SensitiveTools \cup {"call_tool"}

\* checkToolConfirmation returning a request whatever the tool.
EveryToolConfirms(toolName) == "install"

\* checkToolConfirmation with its first branch alone.
InstallOnly(toolName) ==
    IF toolName \in {"install_server", "install_mcp_server"} THEN "install"
    ELSE "none"

\* checkToolConfirmation: the tools for which it returns a request, and the
\* request's type; "none" stands for null.
ConfirmationType(toolName) ==
    CASE toolName \in {"install_server", "install_mcp_server"} -> "install"
      [] toolName \in {"uninstall_server", "uninstall_mcp_server"} -> "uninstall"
      [] toolName = "save_playbook" -> "save-playbook"
      [] toolName = "submit_feedback" -> "submit-feedback"
      [] OTHER -> "none"

\* params[key], undefined where params has no such key.
Field(params, key) ==
    IF params.t = "object" /\ key \in DOMAIN params.fields
    THEN params.fields[key]
    ELSE [t |-> "undefined"]

\* The keys of a request's data, each with the key of params it is read from.
RequestData(type) ==
    CASE type = "install" ->
            [k \in {"serverId", "serverName", "config"} |->
                CASE k = "serverId" -> "server_id"
                  [] k = "serverName" -> "server_name"
                  [] OTHER -> "config"]
      [] type = "uninstall" ->
            [k \in {"serverId", "serverName"} |->
                IF k = "serverId" THEN "server_id" ELSE "server_name"]
      [] type = "save-playbook" ->
            [k \in {"playbookName", "description", "actions", "privacy"} |->
                IF k = "playbookName" THEN "playbook_name" ELSE k]
      [] OTHER -> [k \in {"vote", "message"} |-> k]

\* checkToolConfirmation(toolName, params): the ConfirmationRequest returned.
ConfirmationRequest(toolName, params) ==
    [type |-> ConfirmationType(toolName),
     data |-> [k \in DOMAIN RequestData(ConfirmationType(toolName)) |->
                  Field(params, RequestData(ConfirmationType(toolName))[k])]]

\* `${mcpTool.name}-${Date.now()}`
ToolExecutionId(toolName, t) == <<toolName, t>>

\* A call is in flight from its invocation until execute() settles.
InFlight(c) == calls[c].pc \in {"classify", "confirm", "dispatch"}

\* The model ids of a turn: two of the ChatGPT family and one that is not.
ModelIds ==
    {ModelId("", "gpt-"), ModelId("openai", "gpt-"), ModelId("google", "gemini")}

\* isChatGPTModel(modelId)
IsChatGPTModel(model) ==
    model.family = "gpt-" /\ model.provider \in {"", "openai"}

\* The empty string, and the values a condition takes as false: a missing
\* field, null and the empty string. A primitive stands for a number other
\* than 0 or for true.
JEmpty == [t |-> "string", looks |-> FALSE, doc |-> SyntaxError, empty |-> TRUE]
Truthy(v) == v \notin {[t |-> "undefined"], JNull, JEmpty}

\* What a model sends call_tool besides tool_name: args, arguments, both or
\* neither, with a value that is missing, null, empty, an object or a string
\* that encodes one.
CallToolArguments ==
    UNION {[keys -> {JNull, JEmpty, JObj(EmptyMap), JEncoded(JObj(EmptyMap))}] :
              keys \in SUBSET {"args", "arguments"}}

\* Line 131 dropped: the fix applies to every tool.
FixForEveryTool(toolName) == TRUE

\* Line 131: mcpTool.name === "call_tool"
FixedTool(toolName) == toolName = "call_tool"

\* Lines 129-146: const { args, ...rest } = params; params = { ...rest,
\* arguments: args }, under the condition of lines 131-134.
ArgumentsFix(toolName, model, params) ==
    IF /\ FixedTool(toolName)
       /\ IsChatGPTModel(model)
       /\ Truthy(Field(params, "args"))
       /\ ~Truthy(Field(params, "arguments"))
    THEN JObj([key \in ((DOMAIN params.fields) \ {"args"}) \cup {"arguments"} |->
                  IF key = "arguments" THEN params.fields["args"]
                  ELSE params.fields[key]])
    ELSE params

\* The tool descriptors' inputSchema (lines 101-104), as the server lists them.
InputSchema(toolName) ==
    IF toolName = "call_tool"
    THEN [type |-> "object",
          properties |-> [key \in {"tool_name", "arguments"} |->
                             IF key = "arguments" THEN [type |-> "object"]
                                                  ELSE [type |-> "string"]]]
    ELSE IF toolName = "install_server"
    THEN [type |-> "object",
          properties |-> [key \in {"server_id", "config"} |->
                             IF key = "config" THEN [type |-> "object"]
                                               ELSE [type |-> "string"]]]
    ELSE [type |-> "object",
          properties |-> [key \in {"query"} |-> [type |-> "string"]]]

\* The params the model gives execute(): for install_server with the config as
\* an object or as a string that encodes it.
ParamsOf(toolName) ==
    IF toolName = "call_tool"
    THEN {JObj([key \in {"tool_name"} \cup DOMAIN given |->
                   IF key = "tool_name" THEN JText ELSE given[key]]) :
             given \in CallToolArguments}
    ELSE IF toolName = "install_server"
    THEN {JObj([key \in {"server_id", "config"} |->
                   IF key = "config" THEN config ELSE JText]) :
             config \in {JObj(EmptyMap), JEncoded(JObj(EmptyMap))}}
    ELSE {JObj([key \in {"query"} |-> JText]),
          JObj([key \in {"query", "args"} |->
                   IF key = "args" THEN JObj(EmptyMap) ELSE JText])}

\* A config the user edited in the confirmation dialog.
EditedConfig == JObj([key \in {"env"} |-> JText])

\* The ConfirmationResult values the host answers with; NotGiven stands for a
\* field left out.
NotGiven == [t |-> "undefined"]
ConfirmationResults ==
    {[allowed |-> FALSE, reason |-> r, editedConfig |-> NotGiven,
      wasEdited |-> Undefined] : r \in {Undefined, "", "not now"}}
        \cup {[allowed |-> TRUE, reason |-> Undefined, editedConfig |-> NotGiven,
               wasEdited |-> Undefined]}
        \cup {[allowed |-> TRUE, reason |-> Undefined,
               editedConfig |-> EditedConfig, wasEdited |-> w] :
                 w \in {"true", Undefined}}

\* The messages of the errors thrown into execute().
NormalizationError == "Maximum call stack size exceeded"
ConfirmationErrors == {"Stream cancelled by user", "Connection closed"}
CallToolErrors == {"Tool execution cancelled", "Connection closed"}

\* What adapter.mcp.callTool resolves with.
RemoteResult == [content |-> <<[type |-> "text", text |-> <<"ok">>]>>]

NewCall ==
    [pc |-> "idle", tool |-> "none", id |-> <<"none", 0>>,
     ctrlAborted |-> FALSE, confirmCount |-> 0, decision |-> "none",
     callToolCount |-> 0, outcome |-> "none",
     params |-> NotRun, fixed |-> NotRun, args |-> NotRun,
     finalParams |-> NotRun,
     request |-> NotRun, confirmation |-> NotRun, edits |-> << >>,
     sent |-> NotRun,
     error |-> "none", result |-> NotRun]

ToolInit ==
    /\ aborted = FALSE
    /\ activeToolExecutions = EmptyMap
    /\ now = 0
    /\ interactive \in BOOLEAN
    /\ onArgsEdited \in BOOLEAN
    /\ modelId \in ModelIds
    /\ calls = [c \in Calls |-> NewCall]

\* execute() settles, by a return or a throw.
Settle(c, rec) == calls' = [calls EXCEPT ![c] = rec]

\* Line 248 taking every error for a cancellation.
AnyMessage(message) == TRUE

\* Line 248: error?.message === "Tool execution cancelled"
CancellationMessage(message) == message = "Tool execution cancelled"

\* Lines 259-267: the isError result of the catch block.
ErrorResult(message) ==
    [isError |-> TRUE,
     content |-> <<[type |-> "text",
                    text |-> <<"Tool execution failed: ", message>>]>>]

\* Lines 242-268, the catch block of execute(): the entry under this call's id
\* is deleted and the call settles, rethrowing "Tool execution cancelled" or
\* returning the isError result; message is the caught error's message.
CatchOutcome(rec, message) ==
    IF rec.ctrlAborted \/ aborted \/ CancellationMessage(message)
    THEN "cancelled"
    ELSE "isError"

Catch(c, rec, reg, message) ==
    /\ activeToolExecutions' = MapDelete(reg, rec.id)
    /\ Settle(c, [rec EXCEPT !.pc = "done",
                             !.outcome = CatchOutcome(rec, message),
                             !.result =
                                 IF CatchOutcome(rec, message) = "isError"
                                 THEN ErrorResult(message) ELSE NotRun])

\* Line 230: the check before the MCP call.
AbortedBeforeCall(rec) == rec.ctrlAborted

\* Lines 229-239: check abort, then call adapter.mcp.callTool with finalParams
\* and await it.
CallTool(c, rec, reg) ==
    IF AbortedBeforeCall(rec)
    THEN Catch(c, [rec EXCEPT !.error = "Tool execution cancelled"], reg,
               "Tool execution cancelled")
    ELSE /\ activeToolExecutions' = reg
         /\ calls' = [calls EXCEPT ![c] =
                         [rec EXCEPT !.pc = "dispatch",
                                     !.callToolCount = @ + 1,
                                     !.sent = rec.finalParams]]

\* Line 116 never true: the entry check is skipped.
AbortedOnEntryMissed(signalAborted) == FALSE

\* Line 116: abortSignal.aborted when execute() is invoked.
AbortedOnEntry(signalAborted) == signalAborted

\* Line 174 with the gate applied to every host.
GateAlwaysApplies(isInteractive) == TRUE

\* Line 174: adapter.confirmations.isInteractive()
GateApplies(isInteractive) == isInteractive

\* Lines 110-175: execute() is invoked for toolName with params and runs to its
\* first await; throws says that the synchronous part of the try block (the
\* argument fix, deepSanitizeParams, the logging) throws.
Execute(c, toolName, params, throws) ==
    /\ calls[c].pc = "idle"
    /\ \A d \in Calls : d < c => calls[d].pc # "idle"
    /\ LET id == ToolExecutionId(toolName, now)
           reg == MapSet(activeToolExecutions, id, c)
           rec == [calls[c] EXCEPT !.tool = toolName, !.id = id,
                                   !.params = params]
           fixed == ArgumentsFix(toolName, modelId, params)
           sanitized == DeepSanitizeParams(fixed, InputSchema(toolName),
                                           Undefined)
           ready == [rec EXCEPT !.fixed = fixed, !.args = sanitized,
                                !.finalParams = sanitized]
       IN  IF AbortedOnEntry(aborted)
           THEN /\ activeToolExecutions' = MapDelete(reg, id)
                /\ Settle(c, [rec EXCEPT !.pc = "done",
                                         !.outcome = "streamCancelled",
                                         !.error = "Stream cancelled"])
           ELSE IF throws
           THEN Catch(c, [rec EXCEPT !.error = NormalizationError], reg,
                      NormalizationError)
           ELSE IF ready.ctrlAborted
           THEN Catch(c, [ready EXCEPT !.error = "Tool execution cancelled"],
                      reg, "Tool execution cancelled")
           ELSE IF GateApplies(interactive)
           THEN /\ activeToolExecutions' = reg
                /\ calls' = [calls EXCEPT ![c] = [ready EXCEPT !.pc = "classify"]]
           ELSE CallTool(c, ready, reg)
    /\ UNCHANGED <<aborted, now, options, regVars, sanVars, buildVars, engineVars>>

\* Lines 175-192 and 229-239: the awaited checkToolConfirmation resolves; a
\* request is sent to the host, or the call goes on to the MCP call.
Classified(c) ==
    /\ calls[c].pc = "classify"
    /\ IF ConfirmationType(calls[c].tool) # "none"
       THEN /\ calls' = [calls EXCEPT
                           ![c].pc = "confirm",
                           ![c].confirmCount = @ + 1,
                           ![c].request =
                               ConfirmationRequest(calls[c].tool, calls[c].args)]
            /\ UNCHANGED activeToolExecutions
       ELSE CallTool(c, calls[c], activeToolExecutions)
    /\ UNCHANGED <<aborted, now, options, regVars, sanVars, buildVars, engineVars>>

\* Line 194 without its early return: a denial falls through to the MCP call.
DeniedFallsThrough(allowed) == FALSE

\* Line 194: a result that is not allowed makes execute() return the notice.
Denied(allowed) == ~allowed

\* Line 199 without the host's reason.
ReasonDropped(reason) == "User denied the operation"

\* Line 199: result.reason || "User denied the operation"
ReasonOrDefault(reason) ==
    IF reason \in {Undefined, ""} THEN "User denied the operation" ELSE reason

\* Lines 195-202: the notice returned on a denial.
DenialNotice(reason) ==
    [content |-> <<[type |-> "text",
                    text |-> <<"Operation cancelled: ",
                               ReasonOrDefault(reason)>>]>>]

\* Lines 207-210 replacing the whole payload by the edited config.
WholePayloadReplaced(args, type, editedConfig) == editedConfig

\* Lines 207-210: a copy of the sanitized params, with config replaced by the
\* edited config when the request's type is "install".
EditedParams(args, type, editedConfig) ==
    IF type = "install"
    THEN JObj([key \in DOMAIN args.fields \cup {"config"} |->
                  IF key = "config" THEN editedConfig ELSE args.fields[key]])
    ELSE args

\* Lines 206-219: the edited config applied and onArgsEdited called, when the
\* result has an editedConfig.
ApplyEdit(rec, result) ==
    IF result.editedConfig = NotGiven THEN rec
    ELSE LET final == EditedParams(rec.args, ConfirmationType(rec.tool),
                                   result.editedConfig)
         IN  [rec EXCEPT
                 !.finalParams = final,
                 !.edits =
                     IF onArgsEdited
                     THEN Append(@, [toolName |-> rec.tool, editedArgs |-> final,
                                     configEdited |-> result.wasEdited = "true",
                                     dispatched |-> rec.callToolCount])
                     ELSE @]

\* Lines 189-239: requestConfirmation resolves with result.
ConfirmationResolved(c, result) ==
    /\ calls[c].pc = "confirm"
    /\ LET rec == [calls[c] EXCEPT
                      !.decision = IF result.allowed THEN "allowed" ELSE "denied",
                      !.confirmation = result]
       IN  IF Denied(result.allowed)
           THEN /\ Settle(c, [rec EXCEPT !.pc = "done", !.outcome = "denied",
                                         !.result = DenialNotice(result.reason)])
                /\ UNCHANGED activeToolExecutions
           ELSE CallTool(c, ApplyEdit(rec, result), activeToolExecutions)
    /\ UNCHANGED <<aborted, now, options, regVars, sanVars, buildVars, engineVars>>

\* Lines 220-225 rethrowing every error as it is.
RethrownAsIs(message) == message

\* Lines 220-225: the inner catch turns "Stream cancelled by user" into
\* "Tool execution cancelled" and rethrows any other error.
ConfirmationError(message) ==
    IF message = "Stream cancelled by user" THEN "Tool execution cancelled"
    ELSE message

\* Lines 220-225 and 242-268: requestConfirmation rejects with an error of the
\* given message.
ConfirmationRejected(c, message) ==
    /\ calls[c].pc = "confirm"
    /\ Catch(c, [calls[c] EXCEPT !.decision = "rejected", !.error = message],
             activeToolExecutions, ConfirmationError(message))
    /\ UNCHANGED <<aborted, now, options, regVars, sanVars, buildVars, engineVars>>

\* Lines 235-241: adapter.mcp.callTool resolves and execute() returns its result.
CallToolResolved(c) ==
    /\ calls[c].pc = "dispatch"
    /\ Settle(c, [calls[c] EXCEPT !.pc = "done", !.outcome = "result",
                                  !.result = RemoteResult])
    /\ UNCHANGED <<aborted, activeToolExecutions, now, options, regVars, sanVars, buildVars, engineVars>>

\* Lines 235-268: adapter.mcp.callTool rejects with an error of the given
\* message.
CallToolRejected(c, message) ==
    /\ calls[c].pc = "dispatch"
    /\ Catch(c, [calls[c] EXCEPT !.error = message], activeToolExecutions,
             message)
    /\ UNCHANGED <<aborted, now, options, regVars, sanVars, buildVars, engineVars>>

\* Lines 82-90 with a loop that stops after its first entry.
AbortFirstController(recs, reg) ==
    [c \in Calls |->
        IF DOMAIN reg # {} /\ reg[CHOOSE id \in DOMAIN reg : TRUE] = c
        THEN [recs[c] EXCEPT !.ctrlAborted = TRUE]
        ELSE recs[c]]

\* Lines 82-90: controller.abort() for every entry of the map.
AbortControllers(recs, reg) ==
    [c \in Calls |->
        IF \E id \in DOMAIN reg : reg[id] = c
        THEN [recs[c] EXCEPT !.ctrlAborted = TRUE]
        ELSE recs[c]]

\* Line 92: activeToolExecutions.clear()
Cleared(reg) == EmptyMap

\* Lines 72-93: the turn's signal is aborted (ChatEngine's abort()), which runs
\* the listener synchronously.
AbortListener ==
    /\ ~aborted
    /\ aborted' = TRUE
    /\ calls' = AbortControllers(calls, activeToolExecutions)
    /\ activeToolExecutions' = Cleared(activeToolExecutions)
    /\ UNCHANGED <<now, options, regVars, sanVars, buildVars, engineVars>>

\* Date.now() advances.
Tick ==
    /\ now < MaxClock
    /\ now' = now + 1
    /\ UNCHANGED <<aborted, activeToolExecutions, options, calls, regVars, sanVars, buildVars, engineVars>>

\* ------------------------------------------------------------ MCPClient
\* The calls on the client that may be in progress at once; a call takes the
\* first free slot.
Procs == 1..MaxProcs

\* The sessions ({client, transport}) the transport factory can create: every
\* createSession call opens at most one.
Handles == 1..MaxOps

\* Session ids.
Keys == {"A", "B"}

\* sessions.get(sessionId) of an absent key: undefined.
NoSession == 0

\* sessions.get(sessionId)
SessionsGet(sess, k) == IF k \in DOMAIN sess THEN sess[k] ELSE NoSession

\* getSessionInfo(sessionId).exists
GetSessionInfoExists(sess, k) == SessionsGet(sess, k) # NoSession

\* hasSession(sessionId)
HasSession(sess, k) == k \in DOMAIN sess

NewProc ==
    [pc |-> "idle", op |-> "none", key |-> "none", session |-> NoSession,
     torn |-> "none", opened |-> NoSession, result |-> "none",
     overlapped |-> FALSE]

RegInit ==
    /\ sessions = EmptyMap
    /\ conns = [h \in Handles |->
                   [state |-> "unopened", key |-> "none", closeCalls |-> 0,
                    clientCalls |-> 0]]
    /\ procs = [p \in Procs |-> NewProc]
    /\ ops = 0
    /\ imageHandler \in BOOLEAN

\* A new call may be made on the client, and takes slot p.
CanBegin(p) ==
    /\ ops < MaxOps
    /\ procs[p].pc = "idle"
    /\ \A q \in Procs : q < p => procs[q].pc # "idle"

\* History, not program state: whether another call on the same key is in
\* progress when the call in slot p begins on key k ...
Overlaps(p, k) ==
    \E q \in Procs \ {p} : procs[q].pc # "idle" /\ procs[q].key = k

\* ... and the calls in progress on k then, marked as overlapped too.
MarkOverlapped(p, k) ==
    [q \in Procs |->
        IF q # p /\ procs[q].pc # "idle" /\ procs[q].key = k
        THEN [procs[q] EXCEPT !.overlapped = TRUE]
        ELSE procs[q]]

\* Line 158 reading nothing: the session under the key is never found.
ExistingSessionMissed(sess, k) == NoSession

\* destroySession line 158, the entry to tear down.
ExistingSession(sess, k) == SessionsGet(sess, k)

\* destroySession line 160: closeTransport(session) is called.
CloseTransportCalled(h) ==
    IF h = NoSession THEN conns
    ELSE [conns EXCEPT ![h].closeCalls = @ + 1]

\* Line 161 clearing the map instead of deleting the key.
ClearAfterClose(sess, k, ok) == IF ok THEN EmptyMap ELSE sess

\* destroySession line 161, run once closeTransport has resolved; when it
\* rejects, line 165 is next and the entry stays.
DeleteAfterClose(sess, k, ok) == IF ok THEN MapDelete(sess, k) ELSE sess

\* Line 47 giving up when destroySession reports a failure.
TeardownBlocksOnFailure(torn) == torn = "failure"

\* createSession line 47: what destroySession returned is not looked at.
TeardownBlocks(torn) == FALSE

\* createSession lines 40-47: the call begins and runs destroySession up to its
\* await of closeTransport, or to its return when there is no session.
CreateSession(p, k) ==
    /\ CanBegin(p)
    /\ LET session == ExistingSession(sessions, k)
       IN  /\ procs' = [MarkOverlapped(p, k) EXCEPT ![p] =
                  [pc |-> IF session # NoSession THEN "create_close"
                                                 ELSE "create_destroyed",
                   op |-> "create", key |-> k, session |-> session,
                   torn |-> IF session # NoSession THEN "none" ELSE "success",
                   opened |-> NoSession, result |-> "none",
                   overlapped |-> Overlaps(p, k)]]
           /\ conns' = CloseTransportCalled(session)
    /\ ops' = ops + 1
    /\ UNCHANGED <<sessions, imageHandler, toolVars, sanVars, buildVars, engineVars>>

\* destroySession lines 160-170 inside createSession: closeTransport settles
\* (ok: it resolved) and destroySession returns its outcome.
CreateTeardownSettled(p, ok) ==
    /\ procs[p].pc = "create_close"
    /\ conns' = IF ok THEN [conns EXCEPT ![procs[p].session].state = "closed"]
                      ELSE conns
    /\ sessions' = DeleteAfterClose(sessions, procs[p].key, ok)
    /\ procs' = [procs EXCEPT ![p].pc = "create_destroyed",
                              ![p].torn = IF ok THEN "success" ELSE "failure"]
    /\ UNCHANGED <<ops, imageHandler, toolVars, sanVars, buildVars, engineVars>>

\* createSession lines 47-54: the await of destroySession resumes and
\* createTransport is called.
CreateOpen(p) ==
    /\ procs[p].pc = "create_destroyed"
    /\ procs' = IF TeardownBlocks(procs[p].torn)
                THEN [procs EXCEPT ![p].pc = "idle", ![p].result = "failure"]
                ELSE [procs EXCEPT ![p].pc = "create_open"]
    /\ UNCHANGED <<sessions, conns, ops, imageHandler, toolVars, sanVars, buildVars, engineVars>>

\* createSession lines 51-68: createTransport settles; a session it resolved
\* with is stored under the key, an error it rejected with is caught.
OpenSettled(p, ok) ==
    /\ procs[p].pc = "create_open"
    /\ IF ok
       THEN \E h \in Handles :
               /\ conns[h].state = "unopened"
               /\ \A g \in Handles : g < h => conns[g].state # "unopened"
               /\ conns' = [conns EXCEPT ![h].state = "open",
                                         ![h].key = procs[p].key]
               /\ sessions' = MapSet(sessions, procs[p].key, h)
               /\ procs' = [procs EXCEPT ![p].pc = "idle", ![p].opened = h,
                                         ![p].result = "success"]
       ELSE /\ procs' = [procs EXCEPT ![p].pc = "idle", ![p].result = "failure"]
            /\ UNCHANGED <<sessions, conns>>
    /\ UNCHANGED <<ops, imageHandler, toolVars, sanVars, buildVars, engineVars>>

\* destroySession lines 156-164: the call begins; with no session under the key
\* it returns success at once.
DestroySession(p, k) ==
    /\ CanBegin(p)
    /\ LET session == ExistingSession(sessions, k)
       IN  /\ procs' = [MarkOverlapped(p, k) EXCEPT ![p] =
                  [pc |-> IF session # NoSession THEN "destroy_close" ELSE "idle",
                   op |-> "destroy", key |-> k, session |-> session,
                   torn |-> "none", opened |-> NoSession,
                   result |-> IF session # NoSession THEN "none" ELSE "success",
                   overlapped |-> Overlaps(p, k)]]
           /\ conns' = CloseTransportCalled(session)
    /\ ops' = ops + 1
    /\ UNCHANGED <<sessions, imageHandler, toolVars, sanVars, buildVars, engineVars>>

\* destroySession lines 160-170: closeTransport settles and the call returns.
DestroySettled(p, ok) ==
    /\ procs[p].pc = "destroy_close"
    /\ conns' = IF ok THEN [conns EXCEPT ![procs[p].session].state = "closed"]
                      ELSE conns
    /\ sessions' = DeleteAfterClose(sessions, procs[p].key, ok)
    /\ procs' = [procs EXCEPT ![p].pc = "idle",
                              ![p].result = IF ok THEN "success" ELSE "failure"]
    /\ UNCHANGED <<ops, imageHandler, toolVars, sanVars, buildVars, engineVars>>

\* The check of lines 81 and 114 left out: the lookup's result is used as it is.
SessionMissingIgnored(session) == FALSE

\* listTools line 81, callTool line 114: `if (!session)`.
SessionMissing(session) == session = NoSession

\* session.client.listTools() (line 90) or session.client.callTool() (line 122)
\* is called on the session's connection.
ClientCalled(h) ==
    IF h = NoSession THEN conns
    ELSE [conns EXCEPT ![h].clientCalls = @ + 1]

\* The part of listTools and callTool up to the first await: the lookup, the
\* throw of "No MCP client found for session" or the call on the connection.
ClientRequest(p, k, op, waiting) ==
    /\ CanBegin(p)
    /\ LET session == SessionsGet(sessions, k)
           missing == SessionMissing(session)
       IN  /\ procs' = [MarkOverlapped(p, k) EXCEPT ![p] =
                  [pc |-> IF missing THEN "idle" ELSE waiting,
                   op |-> op, key |-> k, session |-> session,
                   torn |-> "none", opened |-> NoSession,
                   result |-> IF missing THEN "notFound" ELSE "none",
                   overlapped |-> Overlaps(p, k)]]
           /\ conns' = IF missing THEN conns ELSE ClientCalled(session)
    /\ ops' = ops + 1
    /\ UNCHANGED <<sessions, imageHandler, toolVars, sanVars, buildVars, engineVars>>

\* listTools lines 74-90.
ListTools(p, k) == ClientRequest(p, k, "listTools", "list_wait")

\* listTools lines 90-102: the connection's listTools settles; its result is
\* returned, its error rethrown.
ListToolsSettled(p, ok) ==
    /\ procs[p].pc = "list_wait"
    /\ procs' = [procs EXCEPT ![p].pc = "idle",
                              ![p].result = IF ok THEN "tools" ELSE "clientError"]
    /\ UNCHANGED <<sessions, conns, ops, imageHandler, toolVars, sanVars, buildVars, engineVars>>

\* callTool lines 108-122.
MCPCallTool(p, k) == ClientRequest(p, k, "callTool", "call_wait")

\* callTool lines 125-137: the result goes to the image handler when the
\* handler and getCurrentUserId are configured, the content has an image part
\* with data and getCurrentUserId() returns an id.
GoesToImageHandler(hasImages, userId) == imageHandler /\ hasImages /\ userId

\* callTool lines 122-150: the connection's callTool settles. An error rejects
\* callTool; a result is returned raw or handed to imageHandler.initialize.
ClientCallToolSettled(p, ok, hasImages, userId) ==
    /\ procs[p].pc = "call_wait"
    /\ procs' = IF ~ok
                THEN [procs EXCEPT ![p].pc = "idle", ![p].result = "clientError"]
                ELSE IF GoesToImageHandler(hasImages, userId)
                THEN [procs EXCEPT ![p].pc = "call_init"]
                ELSE [procs EXCEPT ![p].pc = "idle", ![p].result = "raw"]
    /\ UNCHANGED <<sessions, conns, ops, imageHandler, toolVars, sanVars, buildVars, engineVars>>

\* callTool lines 138-139: imageHandler.initialize settles. No try block
\* encloses the await, so its error rejects callTool.
ImageInitializeSettled(p, ok) ==
    /\ procs[p].pc = "call_init"
    /\ procs' = IF ok
                THEN [procs EXCEPT ![p].pc = "call_process"]
                ELSE [procs EXCEPT ![p].pc = "idle", ![p].result = "handlerError"]
    /\ UNCHANGED <<sessions, conns, ops, imageHandler, toolVars, sanVars, buildVars, engineVars>>

\* callTool lines 139-145: imageHandler.processToolResult settles; the result
\* with the processed content is returned, or the handler's error rejects
\* callTool.
ProcessToolResultSettled(p, ok) ==
    /\ procs[p].pc = "call_process"
    /\ procs' = [procs EXCEPT ![p].pc = "idle",
                    ![p].result = IF ok THEN "processed" ELSE "handlerError"]
    /\ UNCHANGED <<sessions, conns, ops, imageHandler, toolVars, sanVars, buildVars, engineVars>>

\* The ids Array.from(this.sessions.keys()) holds, as a set.
ActiveSessions(sess) ==
    CASE DOMAIN sess = {} -> "none"
      [] DOMAIN sess = {"A"} -> "A"
      [] DOMAIN sess = {"B"} -> "B"
      [] OTHER -> "A, B"

\* A method that returns without an await: the call takes slot p and leaves
\* its result there.
Returned(p, k, op, result) ==
    /\ CanBegin(p)
    /\ procs' = [procs EXCEPT ![p] =
                    [NewProc EXCEPT !.op = op, !.key = k, !.result = result]]
    /\ ops' = ops + 1

\* A getSessionInfo that drops the entry it looked up.
GetSessionInfoEvicts(p, k) ==
    /\ Returned(p, k, "getSessionInfo",
                IF GetSessionInfoExists(sessions, k) THEN "exists" ELSE "absent")
    /\ sessions' = MapDelete(sessions, k)
    /\ UNCHANGED <<conns, imageHandler, toolVars, sanVars, buildVars, engineVars>>

\* getSessionInfo lines 191-201.
GetSessionInfo(p, k) ==
    /\ Returned(p, k, "getSessionInfo",
                IF GetSessionInfoExists(sessions, k) THEN "exists" ELSE "absent")
    /\ UNCHANGED <<sessions, conns, imageHandler, toolVars, sanVars, buildVars, engineVars>>

\* hasSession lines 206-208.
HasSessionCalled(p, k) ==
    /\ Returned(p, k, "hasSession",
                IF HasSession(sessions, k) THEN "true" ELSE "false")
    /\ UNCHANGED <<sessions, conns, imageHandler, toolVars, sanVars, buildVars, engineVars>>

\* getActiveSessions lines 176-178.
GetActiveSessions(p) ==
    /\ Returned(p, "none", "getActiveSessions", ActiveSessions(sessions))
    /\ UNCHANGED <<sessions, conns, imageHandler, toolVars, sanVars, buildVars, engineVars>>

\* ----------------------------------------------------------- ChatEngine
\* The stream() and initializeSession() calls that may be in progress at once;
\* a call takes the first free slot.
Runs == 1..MaxRuns

NewRun == [pc |-> "idle", caller |-> "none", key |-> "none",
           created |-> FALSE, threw |-> FALSE, outcome |-> "none"]

\* The engine as constructed (lines 31-41): not initialized, no call made on
\* the adapter, no session registered with adapter.mcp.
EngineIdle ==
    engine = [initialized |-> FALSE, life |-> "idle", lifeCalls |-> 0,
              call |-> "none",
              adapterCalls |-> << >>, registered |-> {},
              runs |-> [r \in Runs |-> NewRun]]

\* adapter.initialize() or adapter.shutdown() is invoked.
Invoked(op) == [op |-> op, ok |-> "pending"]

\* The last call on the adapter settles.
Settled(adapterCalls, ok) ==
    [adapterCalls EXCEPT ![Len(adapterCalls)].ok = IF ok THEN "yes" ELSE "no"]

\* Line 47 never true: every initialize() reaches the adapter.
NeverInitialized(initialized) == FALSE

\* Line 47: if (this.initialized) return
AlreadyInitialized(initialized) == initialized

\* Lines 46-48: initialize() is called and runs to its await.
Initialize ==
    /\ engine.life = "idle"
    /\ engine.lifeCalls < MaxLifecycle
    /\ IF AlreadyInitialized(engine.initialized)
       THEN engine' = [engine EXCEPT !.lifeCalls = @ + 1,
                                     !.call = "initialize"]
       ELSE engine' = [engine EXCEPT
                          !.lifeCalls = @ + 1,
                          !.call = "initialize",
                          !.life = "initializing",
                          !.adapterCalls = Append(@, Invoked("initialize"))]
    /\ UNCHANGED <<toolVars, regVars, sanVars, buildVars>>

\* Lines 48-49: adapter.initialize() resolves, and the flag is set, or it
\* rejects, and initialize() rejects with the flag as it was.
AdapterInitializeSettled(ok) ==
    /\ engine.life = "initializing"
    /\ engine' = [engine EXCEPT
                     !.life = "idle",
                     !.adapterCalls = Settled(@, ok),
                     !.initialized = IF ok THEN TRUE ELSE @]
    /\ UNCHANGED <<toolVars, regVars, sanVars, buildVars>>

\* Lines 55-57: shutdown() is called and runs to its await.
Shutdown ==
    /\ engine.life = "idle"
    /\ engine.lifeCalls < MaxLifecycle
    /\ IF ~engine.initialized
       THEN engine' = [engine EXCEPT !.lifeCalls = @ + 1, !.call = "shutdown"]
       ELSE engine' = [engine EXCEPT
                          !.lifeCalls = @ + 1,
                          !.call = "shutdown",
                          !.life = "shuttingDown",
                          !.adapterCalls = Append(@, Invoked("shutdown"))]
    /\ UNCHANGED <<toolVars, regVars, sanVars, buildVars>>

\* Lines 57-58: adapter.shutdown() resolves, and the flag is cleared, or it
\* rejects, and shutdown() rejects with the flag as it was.
AdapterShutdownSettled(ok) ==
    /\ engine.life = "shuttingDown"
    /\ engine' = [engine EXCEPT
                     !.life = "idle",
                     !.adapterCalls = Settled(@, ok),
                     !.initialized = IF ok THEN FALSE ELSE @]
    /\ UNCHANGED <<toolVars, regVars, sanVars, buildVars>>

\* A stream() or initializeSession() call begins in the first free slot.
FreeRun(r) ==
    /\ engine.runs[r].pc = "idle"
    /\ \A q \in Runs : q < r => engine.runs[q].pc # "idle"

\* Lines 152-189: stream() runs to the await of getToolPlexApiKey.
StreamCalled(r, k) ==
    /\ FreeRun(r)
    /\ engine' = [engine EXCEPT
                     !.runs[r] = [NewRun EXCEPT !.pc = "streamKey",
                                                !.caller = "stream",
                                                !.key = k]]
    /\ UNCHANGED <<toolVars, regVars, sanVars, buildVars>>

\* Lines 189-192: with an API key stream() calls initializeMCP, which runs to
\* its own await of getToolPlexApiKey (line 65); without one it goes on
\* without tools.
StreamKeyResolved(r, hasKey) ==
    /\ engine.runs[r].pc = "streamKey"
    /\ engine' = [engine EXCEPT
                     !.runs[r] = IF hasKey
                                 THEN [@ EXCEPT !.pc = "apiKey"]
                                 ELSE [@ EXCEPT !.pc = "done",
                                                !.outcome = "noKey"]]
    /\ UNCHANGED <<toolVars, regVars, sanVars, buildVars>>

\* Lines 83-99 and 65: initializeSession() calls initializeMCP, which runs to
\* its await of getToolPlexApiKey.
InitializeSessionCalled(r, k) ==
    /\ FreeRun(r)
    /\ engine' = [engine EXCEPT
                     !.runs[r] = [NewRun EXCEPT !.pc = "apiKey",
                                                !.caller = "initializeSession",
                                                !.key = k]]
    /\ UNCHANGED <<toolVars, regVars, sanVars, buildVars>>

\* initializeMCP returns or throws, lines 193-209 and 101-146: stream() builds
\* the tools or goes on without them, initializeSession() calls
\* initialize_toolplex or returns {success: false}.
AfterInitializeMCP(run, threw) ==
    [run EXCEPT
        !.pc = "done",
        !.threw = threw,
        !.outcome = IF run.caller = "stream"
                    THEN (IF threw THEN "withoutTools" ELSE "buildsTools")
                    ELSE (IF threw THEN "failure" ELSE "callsTool")]

\* Lines 66-68: !sessionInfo.exists
NoTransport(registered, k) == k \notin registered

\* Lines 65-72: getToolPlexApiKey resolves; a session that does not exist has
\* createTransport invoked for it.
ApiKeyResolved(r) ==
    /\ engine.runs[r].pc = "apiKey"
    /\ engine' = [engine EXCEPT
                     !.runs[r] =
                         IF NoTransport(engine.registered, engine.runs[r].key)
                         THEN [@ EXCEPT !.pc = "creating", !.created = TRUE]
                         ELSE AfterInitializeMCP(@, FALSE)]
    /\ UNCHANGED <<toolVars, regVars, sanVars, buildVars>>

\* Line 74: !result.success
TransportFailed(success) == ~success

\* Lines 72-76: createTransport resolves; with success the adapter has the
\* session registered, without it initializeMCP throws.
CreateTransportSettled(r, success) ==
    /\ engine.runs[r].pc = "creating"
    /\ engine' = [engine EXCEPT
                     !.registered = IF success THEN @ \cup {engine.runs[r].key}
                                    ELSE @,
                     !.runs[r] = AfterInitializeMCP(@, TransportFailed(success))]
    /\ UNCHANGED <<toolVars, regVars, sanVars, buildVars>>

\* ------------------------------------------------------- specifications
\* The turn of buildMCPTools with its calls side by side: the host answers a
\* confirmation request with a plain allow or deny, and gives no edit callback;
\* the client and the normalizer stay as constructed.
Init ==
    /\ ToolInit /\ ~onArgsEdited /\ modelId = ModelId("openai", "gpt-")
    /\ RegInit /\ ~imageHandler
    /\ SanIdle
    /\ BuildIdle
    /\ EngineIdle

PlainResults ==
    {r \in ConfirmationResults :
        r.reason = Undefined /\ r.editedConfig = NotGiven}

\* The params of a model that sends a string that looks like JSON and is not:
\* in a field declared an object, in call_tool's arguments, and in a field named
\* arguments that the schema does not declare.
BrokenParams(toolName) ==
    IF toolName = "call_tool"
    THEN {JObj([key \in {"tool_name", "arguments"} |->
                   IF key = "arguments" THEN JBroken ELSE JText])}
    ELSE IF toolName = "install_server"
    THEN {JObj([key \in {"server_id", "config"} |->
                   IF key = "config" THEN JBroken ELSE JText])}
    ELSE {JObj([key \in {"query", "arguments"} |->
                   IF key = "arguments" THEN JBroken ELSE JText])}

\* The params with every field a string, as a model that stringifies sends them.
StringParams(toolName) ==
    {params \in ParamsOf(toolName) :
        \A key \in DOMAIN params.fields : params.fields[key].t = "string"}

Next ==
    \/ \E c \in Calls, t \in ToolNames, throws \in BOOLEAN :
          \E params \in StringParams(t) : Execute(c, t, params, throws)
    \/ \E c \in Calls : Classified(c)
    \/ \E c \in Calls, result \in PlainResults : ConfirmationResolved(c, result)
    \/ \E c \in Calls, message \in ConfirmationErrors :
          ConfirmationRejected(c, message)
    \/ \E c \in Calls : CallToolResolved(c)
    \/ \E c \in Calls : CallToolRejected(c, "Connection closed")
    \/ AbortListener
    \/ Tick

Spec == Init /\ [][Next]_vars

\* One execute() of the turn, with every answer and every error the host and
\* the client can give it.
CallSpecInit ==
    /\ ToolInit
    /\ RegInit /\ ~imageHandler
    /\ SanIdle
    /\ BuildIdle
    /\ EngineIdle

FirstCall == {c \in Calls : \A d \in Calls : c <= d}

CallNext ==
    \/ \E c \in FirstCall, t \in CallToolNames, throws \in BOOLEAN :
          \E params \in ParamsOf(t) \cup BrokenParams(t) :
             Execute(c, t, params, throws)
    \/ \E c \in FirstCall : Classified(c)
    \/ \E c \in FirstCall, result \in ConfirmationResults :
          ConfirmationResolved(c, result)
    \/ \E c \in FirstCall, message \in ConfirmationErrors :
          ConfirmationRejected(c, message)
    \/ \E c \in FirstCall : CallToolResolved(c)
    \/ \E c \in FirstCall, message \in CallToolErrors : CallToolRejected(c, message)
    \/ AbortListener
    \/ Tick

CallSpec == CallSpecInit /\ [][CallNext]_vars

RegNext ==
    \/ \E p \in Procs, k \in Keys : CreateSession(p, k)
    \/ \E p \in Procs, ok \in BOOLEAN : CreateTeardownSettled(p, ok)
    \/ \E p \in Procs : CreateOpen(p)
    \/ \E p \in Procs, ok \in BOOLEAN : OpenSettled(p, ok)
    \/ \E p \in Procs, k \in Keys : DestroySession(p, k)
    \/ \E p \in Procs, ok \in BOOLEAN : DestroySettled(p, ok)
    \/ \E p \in Procs, k \in Keys : ListTools(p, k)
    \/ \E p \in Procs, ok \in BOOLEAN : ListToolsSettled(p, ok)
    \/ \E p \in Procs, k \in Keys : MCPCallTool(p, k)
    \/ \E p \in Procs, ok, hasImages, userId \in BOOLEAN :
          ClientCallToolSettled(p, ok, hasImages, userId)
    \/ \E p \in Procs, ok \in BOOLEAN : ImageInitializeSettled(p, ok)
    \/ \E p \in Procs, ok \in BOOLEAN : ProcessToolResultSettled(p, ok)
    \/ \E p \in Procs, k \in Keys : GetSessionInfo(p, k)
    \/ \E p \in Procs, k \in Keys : HasSessionCalled(p, k)
    \/ \E p \in Procs : GetActiveSessions(p)

\* The client on its own.
RegSpecInit ==
    /\ ToolInit /\ ~interactive /\ ~onArgsEdited /\ modelId = ModelId("openai", "gpt-")
    /\ RegInit
    /\ SanIdle
    /\ BuildIdle
    /\ EngineIdle

RegSpec == RegSpecInit /\ [][RegNext]_vars

\* deepSanitizeParams on its own: the turn and the client stay as constructed.
SanSpecInit ==
    /\ ToolInit /\ ~interactive /\ ~onArgsEdited /\ modelId = ModelId("openai", "gpt-")
    /\ RegInit /\ ~imageHandler
    /\ SanInit
    /\ BuildIdle
    /\ EngineIdle

SanNext == Sanitize \/ SanitizeAgain

SanSpec == SanSpecInit /\ [][SanNext]_vars

\* The building of a turn's tool set: the turn's calls, the client and the
\* normalizer stay as constructed.
BuildSpecInit ==
    /\ ToolInit /\ ~interactive /\ ~onArgsEdited /\ modelId = ModelId("openai", "gpt-")
    /\ RegInit /\ ~imageHandler
    /\ SanIdle
    /\ BuildInit
    /\ EngineIdle

BuildNext == BuildMCPTools \/ ListToolsFailed

BuildSpec == BuildSpecInit /\ [][BuildNext]_vars

\* The engine's initialize() and shutdown() calls, each awaited before the
\* next is made; everything else stays as constructed.
IdleInit ==
    /\ ToolInit /\ ~interactive /\ ~onArgsEdited /\ modelId = ModelId("openai", "gpt-")
    /\ RegInit /\ ~imageHandler
    /\ SanIdle
    /\ BuildIdle
    /\ EngineIdle

LifeNext ==
    \/ Initialize
    \/ \E ok \in BOOLEAN : AdapterInitializeSettled(ok)
    \/ Shutdown
    \/ \E ok \in BOOLEAN : AdapterShutdownSettled(ok)

LifeSpec == IdleInit /\ [][LifeNext]_vars

\* The engine's stream() and initializeSession() calls side by side.
EngineNext ==
    \/ \E r \in Runs, k \in Keys : StreamCalled(r, k)
    \/ \E r \in Runs, hasKey \in BOOLEAN : StreamKeyResolved(r, hasKey)
    \/ \E r \in Runs, k \in Keys : InitializeSessionCalled(r, k)
    \/ \E r \in Runs : ApiKeyResolved(r)
    \/ \E r \in Runs, success \in BOOLEAN : CreateTransportSettled(r, success)

EngineSpec == IdleInit /\ [][EngineNext]_vars

\* ------------------------------------------------ claims on buildMCPTools

\* C1: a call whose confirmation request was answered allowed=false never
\* invokes adapter.mcp.callTool.
C1_DeniedNeverDispatched ==
    \A c \in Calls : calls[c].decision = "denied" => calls[c].callToolCount = 0

C1_Witness ==
    \E c \in Calls :
        /\ calls[c].decision = "denied"
        /\ calls[c].confirmCount = 1
        /\ calls[c].pc = "done"

\* C2 (as claimed): a call that is in flight when the turn is cancelled settles
\* in the cancelled state, at whichever suspension point it was.
C2_InFlightCallsEndCancelled ==
    [][\A c \in Calls :
          (aborted /\ InFlight(c) /\ calls'[c].pc = "done")
              => calls'[c].outcome = "cancelled"]_vars

\* C3 (as claimed): when no call of the turn is in flight, the map of active
\* executions is empty.
C3_IdleMeansEmptyRegistry ==
    (\A c \in Calls : ~InFlight(c)) => DOMAIN activeToolExecutions = {}

\* C4: the abort event aborts the controller of every entry the map holds at
\* that moment and leaves the map empty.
C4_AbortFansOutAndClears ==
    [][(~aborted /\ aborted') =>
          /\ DOMAIN activeToolExecutions' = {}
          /\ \A id \in DOMAIN activeToolExecutions :
                calls'[activeToolExecutions[id]].ctrlAborted]_vars

C4_Witness ==
    /\ aborted
    /\ DOMAIN activeToolExecutions = {}
    /\ \E c, d \in Calls :
          /\ c # d
          /\ calls[c].ctrlAborted /\ InFlight(c)
          /\ calls[d].ctrlAborted /\ InFlight(d)

\* --------------------------------------------------- claims on MCPClient

\* The call in slot p returns in this step.
Returns(p) ==
    /\ procs'[p].pc = "idle"
    /\ procs[p].pc # "idle" \/ (CanBegin(p) /\ ops' = ops + 1)

\* The call in slot p begins in this step.
Begins(p) == CanBegin(p) /\ ops' = ops + 1

\* C5 (as claimed): when destroySession(key) returns, getSessionInfo(key).exists
\* and hasSession(key) are false, also when closeTransport failed.
C5_DestroyedMeansAbsent ==
    [][\A p \in Procs :
          (Returns(p) /\ procs'[p].op = "destroy")
              => /\ ~GetSessionInfoExists(sessions', procs'[p].key)
                 /\ ~HasSession(sessions', procs'[p].key)]_vars

\* C6 (as claimed): when createSession(key) returns success=false, with no other
\* call on the key overlapping it, no session is stored under key.
C6_FailedCreateMeansAbsent ==
    [][\A p \in Procs :
          (/\ Returns(p)
           /\ procs'[p].op = "create"
           /\ procs'[p].result = "failure"
           /\ ~procs'[p].overlapped)
              => ~GetSessionInfoExists(sessions', procs'[p].key)]_vars

\* C7: a createSession(key) that begins while an earlier createSession's
\* session is registered under key passes that session to closeTransport, and
\* when it returns success the key holds one session, the one it opened.
C7_SecondCreateReplacesFirst ==
    [][\A p \in Procs :
          /\ (Begins(p) /\ procs'[p].op = "create"
                  /\ HasSession(sessions, procs'[p].key))
                => conns'[sessions[procs'[p].key]].closeCalls
                      = conns[sessions[procs'[p].key]].closeCalls + 1
          /\ (Returns(p) /\ procs'[p].op = "create"
                  /\ procs'[p].result = "success")
                => /\ HasSession(sessions', procs'[p].key)
                   /\ sessions'[procs'[p].key] = procs'[p].opened
                   /\ conns'[procs'[p].opened].state = "open"
                   /\ procs'[p].opened # procs'[p].session
                   /\ procs'[p].session # NoSession
                         => conns'[procs'[p].session].closeCalls >= 1]_vars

C7_Witness ==
    \E p \in Procs :
        /\ procs[p].pc = "idle" /\ procs[p].op = "create"
        /\ procs[p].result = "success"
        /\ ~procs[p].overlapped
        /\ procs[p].session # NoSession
        /\ conns[procs[p].session].closeCalls = 1
        /\ conns[procs[p].session].state = "closed"
        /\ SessionsGet(sessions, procs[p].key) = procs[p].opened

\* C8 (as claimed): per key at most one connection is open, and every open
\* connection is the one registered under its key.
C8_OneLiveConnectionPerKey ==
    /\ \A k \in Keys :
          Cardinality({h \in Handles :
                          conns[h].state = "open" /\ conns[h].key = k}) <= 1
    /\ \A h \in Handles :
          conns[h].state = "open" => SessionsGet(sessions, conns[h].key) = h

\* C9 (as claimed): once two overlapping createSession calls on a key have both
\* returned success, with their teardowns succeeding, the key holds the session
\* written last and every other session opened for the key is closed.
C9_LastWriterWinsOthersClosed ==
    \A p, q \in Procs :
        (/\ p # q
         /\ \A r \in Procs : procs[r].pc = "idle"
         /\ procs[p].op = "create" /\ procs[q].op = "create"
         /\ procs[p].key = procs[q].key
         /\ procs[p].overlapped /\ procs[q].overlapped
         /\ procs[p].result = "success" /\ procs[q].result = "success"
         /\ procs[p].torn = "success" /\ procs[q].torn = "success"
         /\ procs[p].opened < procs[q].opened
         /\ \A r \in Procs \ {p, q} : procs[r].key # procs[p].key)
            => /\ SessionsGet(sessions, procs[q].key) = procs[q].opened
               /\ \A h \in Handles :
                     (conns[h].key = procs[q].key /\ h # procs[q].opened)
                         => conns[h].state = "closed"

\* C10: a createSession whose teardown of the previous session failed goes on
\* to call createTransport, and when that resolves it returns success with the
\* new session registered under the key.
C10_TeardownFailureDoesNotBlock ==
    [][\A p \in Procs :
          (/\ procs[p].op = "create"
           /\ procs[p].torn = "failure"
           /\ procs[p].pc \in {"create_destroyed", "create_open"}
           /\ procs'[p].pc # procs[p].pc)
              => \/ procs[p].pc = "create_destroyed" /\ procs'[p].pc = "create_open"
                 \/ /\ procs[p].pc = "create_open"
                    /\ Returns(p)
                    /\ \A h \in Handles :
                          (conns[h].state = "unopened" /\ conns'[h].state = "open")
                              => /\ procs'[p].result = "success"
                                 /\ SessionsGet(sessions', procs[p].key) = h]_vars

C10_Witness ==
    \E p \in Procs :
        /\ procs[p].pc = "idle" /\ procs[p].op = "create"
        /\ procs[p].torn = "failure"
        /\ procs[p].result = "success"
        /\ SessionsGet(sessions, procs[p].key) = procs[p].opened

\* C11: a listTools(key) or callTool(key, ...) that begins while no session is
\* registered under key throws session-not-found at once and calls nothing on
\* any connection.
C11_NoSessionMeansNotFound ==
    [][\A p \in Procs :
          (/\ Begins(p)
           /\ procs'[p].op \in {"listTools", "callTool"}
           /\ ~HasSession(sessions, procs'[p].key))
              => /\ Returns(p)
                 /\ procs'[p].result = "notFound"
                 /\ conns' = conns
                 /\ sessions' = sessions]_vars

\* A callTool on a key whose session was destroyed has thrown
\* session-not-found, and nothing was ever called on that session's connection.
C11_Witness ==
    \E p \in Procs :
        /\ procs[p].pc = "idle" /\ procs[p].op \in {"listTools", "callTool"}
        /\ procs[p].result = "notFound"
        /\ \E h \in Handles :
              /\ conns[h].key = procs[p].key
              /\ conns[h].state = "closed"
              /\ conns[h].clientCalls = 0

\* C12 (as claimed): a callTool whose result went to the image handler returns
\* the processed result or, when the handler threw, the raw result.
C12_HandlerErrorReturnsRaw ==
    [][\A p \in Procs :
          (/\ procs[p].pc \in {"call_init", "call_process"}
           /\ Returns(p)
           /\ procs'[p].result # "processed")
              => procs'[p].result = "raw"]_vars

\* C13 (as claimed): a destroySession(key) with no session under key returns
\* success, calls closeTransport on nothing and leaves the registry as it is;
\* and so does a destroySession(key) that follows a destroySession(key).
C13_DestroyIsIdempotent ==
    [][\A p \in Procs :
          (/\ Begins(p)
           /\ procs'[p].op = "destroy"
           /\ \/ ~HasSession(sessions, procs'[p].key)
              \/ /\ \A q \in Procs : procs[q].pc = "idle"
                 /\ procs[p].op = "destroy"
                 /\ procs[p].key = procs'[p].key
                 /\ ~procs[p].overlapped)
              => /\ Returns(p)
                 /\ procs'[p].result = "success"
                 /\ conns' = conns
                 /\ sessions' = sessions]_vars

\* ------------------------------------------------- claims on the normalizer

\* C19: for every value x, schema s and field name, deepSanitizeParams applied
\* to deepSanitizeParams(x, s) with the same s and field name gives
\* deepSanitizeParams(x, s).
C19_SanitizeIsIdempotent ==
    san.twice # NotRun => san.twice = san.once

\* The second pass has run on a result that the first pass made by parsing a
\* string whose parsed value held a string it parsed too.
C19_Witness ==
    /\ san.twice # NotRun
    /\ san.params.t = "string"
    /\ ~JSONParseThrows(san.params)
    /\ san.params.doc.t = "object"
    /\ san.once.t = "object"
    /\ \E key \in DOMAIN san.params.doc.fields :
          /\ san.params.doc.fields[key].t = "string"
          /\ san.once.fields[key].t \in {"array", "object"}

\* C20: a string given with a schema of type "string" is returned as it is,
\* whatever it parses to and whatever the field name.
C20_DeclaredStringUntouched ==
    (/\ san.once # NotRun
     /\ san.params.t = "string"
     /\ SchemaType(san.schema) = "string")
        => san.once = san.params

\* A string that parses as JSON, under the field name "arguments" and a string
\* schema, has come back unchanged.
C20_Witness ==
    /\ san.once # NotRun
    /\ san.params.t = "string"
    /\ LooksLikeJSON(san.params) /\ ~JSONParseThrows(san.params)
    /\ san.fieldName = "arguments"
    /\ SchemaType(san.schema) = "string"
    /\ san.once = san.params

\* ------------------------------------------- claims on one execute() call

\* C14: an execute() invoked while the turn's signal is aborted throws the
\* cancellation error at once: no entry of the map is left for it, and it has
\* not sanitized its params, asked for a confirmation or called callTool.
C14_AbortedAtEntryFailsAtOnce ==
    [][\A c \in Calls :
          (aborted /\ calls[c].pc = "idle" /\ calls'[c].pc # "idle")
              => /\ calls'[c].pc = "done"
                 /\ calls'[c].outcome = "streamCancelled"
                 /\ calls'[c].error = "Stream cancelled"
                 /\ calls'[c].id \notin DOMAIN activeToolExecutions'
                 /\ \A id \in DOMAIN activeToolExecutions' :
                       activeToolExecutions'[id] # c
                 /\ calls'[c].args = NotRun
                 /\ calls'[c].confirmCount = 0
                 /\ calls'[c].callToolCount = 0]_vars

C14_Witness ==
    \E c \in Calls :
        /\ aborted
        /\ calls[c].pc = "done"
        /\ calls[c].outcome = "streamCancelled"
        /\ calls[c].tool = "install_server"

\* C15: a call whose confirmation was answered allowed=false has returned,
\* without throwing and without isError, a result whose one part is the text
\* "Operation cancelled: " followed by the host's reason, or by the default
\* reason when the host gave none.
C15_DenialReturnsNotice ==
    \A c \in Calls :
        (calls[c].confirmation # NotRun /\ ~calls[c].confirmation.allowed)
            => /\ calls[c].pc = "done"
               /\ calls[c].outcome = "denied"
               /\ calls[c].error = "none"
               /\ "isError" \notin DOMAIN calls[c].result
               /\ Len(calls[c].result.content) = 1
               /\ calls[c].result.content[1].type = "text"
               /\ calls[c].result.content[1].text =
                     <<"Operation cancelled: ",
                       IF calls[c].confirmation.reason \in {Undefined, ""}
                       THEN "User denied the operation"
                       ELSE calls[c].confirmation.reason>>

C15_Witness ==
    \E c \in Calls :
        /\ calls[c].confirmation # NotRun
        /\ ~calls[c].confirmation.allowed
        /\ calls[c].confirmation.reason = "not now"
        /\ calls[c].result.content[1].text = <<"Operation cancelled: ", "not now">>

\* C16: with isInteractive() false no call ever asks for a confirmation, and an
\* execute() that is invoked (not cancelled, not throwing) calls callTool in
\* that step with the sanitized params.
C16_NonInteractiveBypassesGate ==
    [][~interactive =>
          \A c \in Calls :
              /\ calls'[c].confirmCount = 0
              /\ (/\ calls[c].pc = "idle" /\ calls'[c].pc # "idle"
                  /\ ~aborted
                  /\ calls'[c].error = "none")
                    => /\ calls'[c].pc = "dispatch"
                       /\ calls'[c].callToolCount = 1
                       /\ calls'[c].sent =
                             DeepSanitizeParams(calls'[c].params,
                                                InputSchema(calls'[c].tool),
                                                Undefined)]_vars

\* A non-interactive host: install_server is in callTool, unconfirmed, with the
\* config parsed out of the string the model sent.
C16_Witness ==
    \E c \in Calls :
        /\ ~interactive
        /\ calls[c].tool = "install_server"
        /\ calls[c].pc = "dispatch"
        /\ calls[c].confirmCount = 0
        /\ calls[c].params.fields["config"].t = "string"
        /\ calls[c].sent.fields["config"].t = "object"

\* C17: while the turn is not cancelled, an error thrown into execute() by the
\* sanitizing, by requestConfirmation or by callTool, other than the
\* cancellation errors ("Tool execution cancelled", and "Stream cancelled by
\* user" from requestConfirmation), makes execute() return the isError result
\* with the error's message.
C17_UnexpectedErrorBecomesIsError ==
    [][\A c \in Calls :
          (/\ calls[c].pc # "done" /\ calls'[c].pc = "done"
           /\ ~aborted
           /\ calls'[c].error \notin {"none", "Tool execution cancelled"}
           /\ ~(calls[c].pc = "confirm"
                   /\ calls'[c].error = "Stream cancelled by user"))
              => /\ calls'[c].outcome = "isError"
                 /\ calls'[c].result =
                       [isError |-> TRUE,
                        content |-> <<[type |-> "text",
                                       text |-> <<"Tool execution failed: ",
                                                  calls'[c].error>>]>>]]_vars

C17_Witness ==
    \E c \in Calls :
        /\ ~aborted
        /\ calls[c].pc = "done"
        /\ calls[c].callToolCount = 1
        /\ calls[c].error = "Connection closed"
        /\ calls[c].outcome = "isError"

\* C18: after allowed=true with an editedConfig on an install request, the
\* arguments given to callTool are the sanitized params with config replaced by
\* the edited config and nothing else changed; and onArgsEdited, when given,
\* has been called once, before callTool, with the tool name, those arguments
\* and wasEdited === true.
C18_EditReplacesConfigOnly ==
    \A c \in Calls :
        (/\ calls[c].confirmation # NotRun
         /\ calls[c].confirmation.allowed
         /\ calls[c].confirmation.editedConfig # NotGiven
         /\ ConfirmationType(calls[c].tool) = "install")
            => /\ calls[c].callToolCount <= 1
               /\ calls[c].callToolCount = 1 =>
                     /\ calls[c].sent.t = "object"
                     /\ DOMAIN calls[c].sent.fields
                           = DOMAIN calls[c].args.fields \cup {"config"}
                     /\ calls[c].sent.fields["config"]
                           = calls[c].confirmation.editedConfig
                     /\ \A key \in DOMAIN calls[c].args.fields \ {"config"} :
                           calls[c].sent.fields[key] = calls[c].args.fields[key]
               /\ onArgsEdited =>
                     /\ Len(calls[c].edits) = 1
                     /\ calls[c].edits[1].toolName = calls[c].tool
                     /\ calls[c].edits[1].configEdited
                           = (calls[c].confirmation.wasEdited = "true")
                     /\ calls[c].edits[1].dispatched = 0
                     /\ calls[c].callToolCount = 1 =>
                           calls[c].edits[1].editedArgs = calls[c].sent

C18_Witness ==
    \E c \in Calls :
        /\ onArgsEdited
        /\ calls[c].pc = "done" /\ calls[c].outcome = "result"
        /\ calls[c].confirmation # NotRun
        /\ calls[c].confirmation.editedConfig = EditedConfig
        /\ calls[c].confirmation.wasEdited = "true"
        /\ calls[c].params.fields["config"].t = "string"
        /\ calls[c].sent.fields["config"] = EditedConfig
        /\ calls[c].sent.fields["server_id"] = calls[c].params.fields["server_id"]
        /\ Len(calls[c].edits) = 1
        /\ calls[c].edits[1].configEdited

\* --------------------------------------- claims on the rules of the reparse

\* The value y was made from x with every string of x either kept or, where
\* the line's rule allows it, replaced by an array or object: the schema that
\* applies to the string types it as object or array, or the field name that
\* applies to it is "arguments". The schema of a property is properties[key]
\* and its field name the key; the schema of an array's item is items and its
\* field name that of the array.
RECURSIVE ReparsedOnlyWhereAllowed(_, _, _, _)
ReparsedOnlyWhereAllowed(x, y, schema, fieldName) ==
    CASE x.t = "string" ->
            \/ y = x
            \/ /\ LooksLikeJSON(x)
               /\ y.t \in {"array", "object"}
               /\ \/ SchemaType(schema) \in {"object", "array"}
                  \/ fieldName = "arguments"
      [] x.t = "array" ->
            /\ y.t = "array"
            /\ DOMAIN y.items = DOMAIN x.items
            /\ \A i \in DOMAIN x.items :
                  ReparsedOnlyWhereAllowed(x.items[i], y.items[i],
                                           SchemaItems(schema), fieldName)
      [] x.t = "object" ->
            /\ y.t = "object"
            /\ DOMAIN y.fields = DOMAIN x.fields
            /\ \A key \in DOMAIN x.fields :
                  ReparsedOnlyWhereAllowed(x.fields[key], y.fields[key],
                                           SchemaProperty(schema, key), key)
      [] OTHER -> y = x

\* Some object of the value, at any depth outside its strings, has the key
\* "arguments".
RECURSIVE HasArgumentsKey(_)
HasArgumentsKey(x) ==
    CASE x.t = "array" -> \E i \in DOMAIN x.items : HasArgumentsKey(x.items[i])
      [] x.t = "object" ->
            \/ "arguments" \in DOMAIN x.fields
            \/ \E key \in DOMAIN x.fields : HasArgumentsKey(x.fields[key])
      [] OTHER -> FALSE

ChildrenNormalized(parsed, y, schema, fieldName) ==
    /\ y.t = parsed.t
    /\ parsed.t = "object" =>
          /\ DOMAIN y.fields = DOMAIN parsed.fields
          /\ \A key \in DOMAIN parsed.fields :
                y.fields[key] =
                    DeepSanitizeParams(parsed.fields[key],
                                       SchemaProperty(schema, key), key)
    /\ parsed.t = "array" =>
          /\ DOMAIN y.items = DOMAIN parsed.items
          /\ \A i \in DOMAIN parsed.items :
                y.items[i] =
                    DeepSanitizeParams(parsed.items[i], SchemaItems(schema),
                                       fieldName)

\* A string that JSON.parse turns into an array or object.
EncodesStructure(x) ==
    /\ x.t = "string"
    /\ LooksLikeJSON(x)
    /\ ~JSONParseThrows(x)
    /\ JSONParse(x).t \in {"array", "object"}

\* C22: a string that holds valid JSON for an object or array, given with a
\* schema of type object or array, comes back as the parsed structure with its
\* children normalized against properties[key] or items; so does such a string
\* that is the value of a property the schema types as object or array.
C22_TypedStringIsParsedAndRecursed ==
    san.once # NotRun =>
        /\ (EncodesStructure(san.params)
               /\ SchemaType(san.schema) \in {"object", "array"})
              => ChildrenNormalized(JSONParse(san.params), san.once,
                                    san.schema, san.fieldName)
        /\ san.params.t = "object" =>
              \A key \in DOMAIN san.params.fields :
                  (EncodesStructure(san.params.fields[key])
                      /\ SchemaType(SchemaProperty(san.schema, key))
                            \in {"object", "array"})
                     => ChildrenNormalized(JSONParse(san.params.fields[key]),
                                           san.once.fields[key],
                                           SchemaProperty(san.schema, key),
                                           key)

\* An object schema types the property "config" as object; the value was a
\* string encoding an object whose "config" was itself a string encoding an
\* object, and both came back as objects.
C22_Witness ==
    /\ san.once # NotRun
    /\ EncodesStructure(san.params)
    /\ SchemaType(san.schema) = "object"
    /\ SchemaType(SchemaProperty(san.schema, "config")) = "object"
    /\ JSONParse(san.params).t = "object"
    /\ "config" \in DOMAIN JSONParse(san.params).fields
    /\ EncodesStructure(JSONParse(san.params).fields["config"])
    /\ san.once.t = "object"
    /\ san.once.fields["config"] = JSONParse(JSONParse(san.params).fields["config"])

\* ------------------------------------------------- claims on the tool set

\* buildMCPTools has returned the tool set.
Built == build.tools \notin {NotBuilt, ListToolsError, RangeError}

\* The keys a restricted provider does not accept.
RestrictedKeys == {"oneOf", "anyOf", "allOf", "const", "required"}

\* Some object of the document, at any depth, has one of the keys.
RECURSIVE HasKeyAnywhere(_, _)
HasKeyAnywhere(x, keys) ==
    CASE x.t = "array" ->
            \E i \in DOMAIN x.items : HasKeyAnywhere(x.items[i], keys)
      [] x.t = "object" ->
            \/ (DOMAIN x.fields) \cap keys # {}
            \/ \E key \in DOMAIN x.fields : HasKeyAnywhere(x.fields[key], keys)
      [] OTHER -> FALSE

\* Some node of the schema, at any depth, has one of the keys as a keyword:
\* the keys of a properties map are the names of the properties, and the
\* nodes below it are their schemas.
RECURSIVE HasKeyword(_, _)
HasKeyword(x, keys) ==
    CASE x.t = "array" ->
            \E i \in DOMAIN x.items : HasKeyword(x.items[i], keys)
      [] x.t = "object" ->
            \/ (DOMAIN x.fields) \cap keys # {}
            \/ \E key \in DOMAIN x.fields :
                  IF key = "properties" /\ x.fields[key].t = "object"
                  THEN \E propName \in DOMAIN x.fields[key].fields :
                          HasKeyword(x.fields[key].fields[propName], keys)
                  ELSE HasKeyword(x.fields[key], keys)
      [] OTHER -> FALSE

\* Every node of the document whose type is "object" has a properties key.
RECURSIVE ObjectNodesHaveProperties(_)
ObjectNodesHaveProperties(x) ==
    CASE x.t = "array" ->
            \A i \in DOMAIN x.items : ObjectNodesHaveProperties(x.items[i])
      [] x.t = "object" ->
            /\ ("type" \in DOMAIN x.fields
                   /\ x.fields["type"] = SchemaString("object"))
                  => "properties" \in DOMAIN x.fields
            /\ \A key \in DOMAIN x.fields :
                  ObjectNodesHaveProperties(x.fields[key])
      [] OTHER -> TRUE

\* C23 as stated: for a Gemini model no schema of the tool set has a oneOf,
\* anyOf, allOf, const or required key anywhere, at any depth, and every node
\* of type object has a properties key.
C23_NoRestrictedKeyAnywhere ==
    (Built /\ IsGoogleGeminiModel(build.modelId)) =>
        \A name \in DOMAIN build.tools :
            /\ ~HasKeyAnywhere(build.tools[name].inputSchema, RestrictedKeys)
            /\ ObjectNodesHaveProperties(build.tools[name].inputSchema)

\* C23, amended: for a Gemini model no node of a schema of the tool set has
\* oneOf, anyOf, allOf, const or required as a keyword, at any depth (a
\* property may be named so), and every node of type object has a properties
\* key.
C23_NoRestrictedKeyword ==
    (Built /\ IsGoogleGeminiModel(build.modelId)) =>
        \A name \in DOMAIN build.tools :
            /\ ~HasKeyword(build.tools[name].inputSchema, RestrictedKeys)
            /\ ObjectNodesHaveProperties(build.tools[name].inputSchema)

\* The tool set of a Gemini model holds a schema made from one with a
\* restricted keyword below its root and an object node without properties.
C23_Witness ==
    /\ Built
    /\ IsGoogleGeminiModel(build.modelId)
    /\ Len(build.listed) = 1
    /\ build.listed[1].name \in DOMAIN build.tools
    /\ build.listed[1].inputSchema # JUndefined
    /\ ~((DOMAIN build.listed[1].inputSchema.fields) \cap RestrictedKeys # {})
    /\ HasKeyword(build.listed[1].inputSchema, RestrictedKeys)
    /\ ~ObjectNodesHaveProperties(build.listed[1].inputSchema)

\* The definitions map the root of a schema has under a keyword, and the
\* definition a reference names in the map of its keyword (undefined if none).
DefinitionsMap(schema, keyword) ==
    IF keyword \in DOMAIN schema.fields THEN schema.fields[keyword].fields
    ELSE EmptyMap

TargetOf(schema, ref) ==
    IF RefMatch(ref) /\ ref.text[3] \in DOMAIN DefinitionsMap(schema, ref.text[2])
    THEN DefinitionsMap(schema, ref.text[2])[ref.text[3]]
    ELSE JUndefined

\* The reference has a format other than #/$defs/NAME and #/definitions/NAME,
\* or the schema has no definitions map with the name.
Unresolvable(schema, ref) ==
    \/ ~RefMatch(ref)
    \/ \A keyword \in {"$defs", "definitions"} :
          ref.text[3] \notin DOMAIN DefinitionsMap(schema, keyword)

\* The properties of the root of a schema that are references.
RefProperties(schema) ==
    IF schema.t = "object" /\ "properties" \in DOMAIN schema.fields
    THEN {p \in DOMAIN schema.fields["properties"].fields :
             IsRef(schema.fields["properties"].fields[p])}
    ELSE {}

\* C24: in the schema of a listed tool, a property that is a reference which
\* cannot be resolved comes out as {} with one diagnostic logged and no error
\* raised; a property that is a reference to a definition of the schema's
\* definitions map comes out as that definition, with no diagnostic.
C24_ReferencesResolvedOrPermissive ==
    (/\ build.tools \notin {NotBuilt, ListToolsError}
     /\ Len(build.listed) = 1
     /\ Visible(build) = {1}
     /\ build.listed[1].inputSchema # JUndefined)
        => LET schema == build.listed[1].inputSchema
               name == build.listed[1].name
           IN  \A p \in RefProperties(schema) :
                  LET node == schema.fields["properties"].fields[p]
                      ref == node.fields["$ref"]
                      target == TargetOf(schema, ref)
                  IN  /\ build.tools # RangeError
                      /\ Unresolvable(schema, ref) =>
                            /\ build.tools[name].inputSchema
                                   .fields["properties"].fields[p] = JObj(EmptyMap)
                            /\ build.warnings = 1
                      /\ (target # JUndefined /\ ~IsRef(target)
                             /\ ~IsGoogleGeminiModel(build.modelId)) =>
                            /\ build.tools[name].inputSchema
                                   .fields["properties"].fields[p]
                                  = JObj(Spread(target.fields,
                                                Without(node.fields, "$ref")))
                            /\ build.warnings = 0

\* C25: the tool set buildMCPTools returns has no tool with a name of the
\* hidden set, and has a tool (one: the set is keyed by name) for every other
\* name among the descriptors listed.
C25_HiddenToolsLeftOut ==
    Built =>
        DOMAIN build.tools =
            {build.listed[i].name : i \in DOMAIN build.listed} \ build.hiddenTools

\* With the default hidden set, the server listed initialize_toolplex and
\* search_servers, and the tool set has search_servers alone.
C25_Witness ==
    /\ Built
    /\ build.hiddenTools = HiddenByDefault
    /\ {build.listed[i].name : i \in DOMAIN build.listed}
          = {"initialize_toolplex", "search_servers"}
    /\ DOMAIN build.tools = {"search_servers"}

\* ------------------------------------- claims on the cancellation of a turn

\* Two calls in flight whose toolExecutionId is the same.
Collide(c, d) ==
    /\ c # d
    /\ InFlight(c) /\ InFlight(d)
    /\ calls[c].id = calls[d].id

\* adapter.mcp.callTool is invoked for call c in this step.
Dispatches(c) == calls'[c].callToolCount > calls[c].callToolCount

\* C26: for two calls in flight with the same toolExecutionId, the abort of
\* the turn aborts the controllers of both, neither is dispatched once the
\* turn is aborted, and when one of them ends in the catch block the map still
\* holds the entry of the other.
C26_CollisionsAreIrrelevant ==
    [][\A c, d \in Calls :
          Collide(c, d) =>
              /\ (~aborted /\ aborted') =>
                    calls'[c].ctrlAborted /\ calls'[d].ctrlAborted
              /\ aborted => ~Dispatches(c)
              /\ (/\ ~aborted'
                  /\ calls'[c].pc = "done"
                  /\ calls'[c].outcome \in {"isError", "cancelled"}
                  /\ InFlight(d)')
                    => calls[d].id \in DOMAIN activeToolExecutions']_vars

\* C27: adapter.mcp.callTool is never invoked once the turn's signal is
\* aborted, whatever the call was waiting for when the abort came and whatever
\* the confirmation's answer.
C27_NoDispatchAfterCancel ==
    [][\A c \in Calls : aborted => ~Dispatches(c)]_vars

\* ------------------------------------------ claims on the confirmation gate

\* C28: in an interactive host, adapter.mcp.callTool is invoked for a tool of
\* the table only by a call that was waiting for the answer to its own
\* confirmation request and got allowed=true; the request was made from the
\* normalized arguments: a config given as a string that encodes an object is
\* in the request as the object.
C28_ConfirmationPrecedesDispatch ==
    [][\A c \in Calls :
          (interactive /\ calls[c].tool \in SensitiveTools /\ Dispatches(c)) =>
              /\ calls[c].pc = "confirm"
              /\ calls[c].confirmCount = 1
              /\ calls'[c].confirmation.allowed
              /\ calls[c].request.type # "none"
              /\ \A k \in DOMAIN calls[c].request.data :
                    LET raw == Field(calls[c].params,
                                     RequestData(calls[c].request.type)[k])
                    IN  calls[c].request.data[k] =
                            IF EncodesStructure(raw)
                                  /\ SchemaType(SchemaProperty(
                                         InputSchema(calls[c].tool),
                                         RequestData(calls[c].request.type)[k]))
                                       \in {"object", "array"}
                            THEN JSONParse(raw)
                            ELSE raw]_vars

\* install_server was dispatched after its request, which held the config as
\* an object although the model gave it as a string, was allowed.
C28_Witness ==
    \E c \in Calls :
        /\ interactive
        /\ calls[c].tool = "install_server"
        /\ calls[c].callToolCount = 1
        /\ calls[c].params.fields["config"].t = "string"
        /\ calls[c].request.data["config"].t = "object"
        /\ calls[c].confirmation.allowed

\* C29: a call invokes requestConfirmation at most once, and only for a tool
\* of the table; an answer is taken by the call that is waiting for it and
\* changes the decision of no other call, and a call of a tool of the table is
\* dispatched only from its own pending request, whatever an earlier call of
\* the same tool was answered.
C29_OneRequestPerCall ==
    [][\A c \in Calls :
          /\ calls'[c].confirmCount <= 1
          /\ calls'[c].confirmCount > calls[c].confirmCount =>
                calls[c].tool \in SensitiveTools
          /\ calls'[c].decision # calls[c].decision =>
                /\ calls[c].pc = "confirm"
                /\ \A d \in Calls \ {c} :
                      /\ calls'[d].decision = calls[d].decision
                      /\ calls'[d].confirmation = calls[d].confirmation
          /\ (interactive /\ calls[c].tool \in SensitiveTools /\ Dispatches(c)) =>
                /\ calls[c].pc = "confirm"
                /\ calls[c].decision = "none"]_vars

\* Two calls of install_server each made one request; the first was allowed
\* and dispatched, the second was denied and not dispatched.
C29_Witness ==
    \E c, d \in Calls :
        /\ c # d
        /\ calls[c].tool = "install_server" /\ calls[d].tool = "install_server"
        /\ calls[c].confirmCount = 1 /\ calls[d].confirmCount = 1
        /\ calls[c].decision = "allowed" /\ calls[c].callToolCount = 1
        /\ calls[d].decision = "denied" /\ calls[d].callToolCount = 0

\* ------------------------------------------- claims on the registry's frame

\* The call in slot p takes a step: it begins, or it goes on from an await.
Acts(p) ==
    \/ Begins(p)
    \/ procs[p].pc # "idle" /\ procs'[p].pc # procs[p].pc

\* C30: a step of getSessionInfo, hasSession, getActiveSessions, listTools or
\* callTool leaves the sessions map as it was, whether the call then returns a
\* result or an error; the map changes only in a step of createSession or
\* destroySession; and getSessionInfo calls nothing on a connection.
C30_OnlyCreateAndDestroyWrite ==
    [][/\ \A p \in Procs :
             (Acts(p) /\ procs'[p].op \in
                  {"getSessionInfo", "hasSession", "getActiveSessions",
                   "listTools", "callTool"})
                => sessions' = sessions
       /\ sessions' # sessions =>
             \E p \in Procs : Acts(p) /\ procs'[p].op \in {"create", "destroy"}
       /\ \A p \in Procs :
             (Acts(p) /\ procs'[p].op = "getSessionInfo") => conns' = conns]_vars

\* getSessionInfo has answered exists, and a listTools on the same key has
\* failed on the connection, with the key still registered.
C30_Witness ==
    \E p, q \in Procs :
        /\ procs[p].pc = "idle" /\ procs[p].op = "getSessionInfo"
        /\ procs[p].result = "exists"
        /\ procs[q].pc = "idle" /\ procs[q].op = "listTools"
        /\ procs[q].result = "clientError"
        /\ procs[q].key = procs[p].key
        /\ HasSession(sessions, procs[p].key)

\* ------------------------------------------ claims on the sessions' isolation

\* C31: a step of a createSession, destroySession, listTools or callTool on one
\* key leaves, for every other key, the entry registered under it as it was,
\* and every connection opened for it as it was: not closed, and with no list
\* or call issued on it.
C31_SessionsAreIsolated ==
    [][\A p \in Procs :
          (Acts(p) /\ procs'[p].op \in {"create", "destroy", "listTools", "callTool"})
             => \A k \in Keys \ {procs'[p].key} :
                   /\ SessionsGet(sessions', k) = SessionsGet(sessions, k)
                   /\ \A h \in Handles :
                         conns[h].key = k => conns'[h] = conns[h]]_vars

\* Sessions were created under both keys and the one under A destroyed: its
\* connection is closed, while B's is registered, open, never passed to close.
C31_Witness ==
    \E p \in Procs, g, h \in Handles :
        /\ procs[p].pc = "idle" /\ procs[p].op = "destroy"
        /\ procs[p].key = "A" /\ procs[p].result = "success"
        /\ conns[g].key = "A" /\ conns[g].state = "closed"
        /\ conns[h].key = "B" /\ conns[h].state = "open"
        /\ conns[h].closeCalls = 0
        /\ SessionsGet(sessions, "B") = h
        /\ ~HasSession(sessions, "A")

\* ------------------------------------------ claims on the provider's fix
HasKey(params, key) == params.t = "object" /\ key \in DOMAIN params.fields

\* params with args renamed to arguments and every other field kept.
Renames(params, fixed) ==
    /\ fixed.t = "object"
    /\ DOMAIN fixed.fields = ((DOMAIN params.fields) \ {"args"}) \cup {"arguments"}
    /\ fixed.fields["arguments"] = params.fields["args"]
    /\ \A key \in (DOMAIN params.fields) \ {"args", "arguments"} :
          fixed.fields[key] = params.fields[key]

Normalizing(c) == calls[c].fixed # NotRun

\* C32 as stated: the parameters reach the normalizer changed only for
\* call_tool, a model of the ChatGPT family, args present and arguments absent,
\* and then with args renamed to arguments and every other field kept.
C32_FixOnlyWhenArgumentsAbsent ==
    \A c \in Calls :
       (Normalizing(c) /\ calls[c].fixed # calls[c].params) =>
          /\ calls[c].tool = "call_tool"
          /\ IsChatGPTModel(modelId)
          /\ HasKey(calls[c].params, "args")
          /\ ~HasKey(calls[c].params, "arguments")
          /\ Renames(calls[c].params, calls[c].fixed)

\* C32, amended: the parameters reach the normalizer changed only for call_tool,
\* a model of the ChatGPT family, args holding a value that is neither null nor
\* empty and arguments missing, null or empty; args is then renamed to
\* arguments, which replaces a null or empty arguments, and every other field
\* is kept.
C32_FixOnlyWhenArgumentsFalsy ==
    \A c \in Calls :
       (Normalizing(c) /\ calls[c].fixed # calls[c].params) =>
          /\ calls[c].tool = "call_tool"
          /\ IsChatGPTModel(modelId)
          /\ Truthy(Field(calls[c].params, "args"))
          /\ ~Truthy(Field(calls[c].params, "arguments"))
          /\ Renames(calls[c].params, calls[c].fixed)

\* A call of call_tool by a ChatGPT model whose args replaced a null arguments.
C32_Witness ==
    \E c \in Calls :
       /\ Normalizing(c)
       /\ calls[c].tool = "call_tool"
       /\ IsChatGPTModel(modelId)
       /\ Field(calls[c].params, "arguments") = JNull
       /\ Field(calls[c].params, "args") = JEncoded(JObj(EmptyMap))
       /\ Renames(calls[c].params, calls[c].fixed)
       /\ calls[c].args = JObj([key \in {"tool_name", "arguments"} |->
                                  IF key = "arguments" THEN JObj(EmptyMap)
                                  ELSE JText])

\* ------------------------------------------ claims on a string that does not parse
\* The keys of a call's parameters that hold a string that looks like JSON, is
\* not, and qualifies for the reparse by the schema or by the field's name.
BrokenKeys(c) ==
    {key \in DOMAIN calls[c].fixed.fields :
        /\ calls[c].fixed.fields[key] = JBroken
        /\ \/ DeclaredStructure(SchemaProperty(InputSchema(calls[c].tool), key))
           \/ IsArgumentsField(key)}

\* The host replaced the config when it allowed the call.
ConfigEdited(c) ==
    /\ calls[c].confirmation # NotRun
    /\ calls[c].confirmation.editedConfig # NotGiven
    /\ ConfirmationType(calls[c].tool) = "install"

\* C33: a string that looks like JSON, qualifies for the reparse and does not
\* parse comes out of the normalization as it went in and without an error; the
\* confirmation request is built from it and the MCP call is sent with it,
\* unless the host edits the config it is in.
C33_InvalidJSONPassesThrough ==
    \A c \in Calls :
       Normalizing(c) =>
          \A key \in BrokenKeys(c) :
             /\ calls[c].args.fields[key] = JBroken
             /\ calls[c].error # NormalizationError
             /\ calls[c].request # NotRun =>
                   calls[c].request = ConfirmationRequest(calls[c].tool,
                                                          calls[c].fixed)
             /\ calls[c].sent # NotRun =>
                   \/ calls[c].sent.fields[key] = JBroken
                   \/ ConfigEdited(c) /\ key = "config"

\* install_server with a config that does not parse was confirmed by the host
\* and sent to the server with that string.
C33_Witness ==
    \E c \in Calls :
       /\ calls[c].tool = "install_server"
       /\ calls[c].outcome = "result"
       /\ BrokenKeys(c) = {"config"}
       /\ calls[c].confirmCount = 1
       /\ calls[c].request.data["config"] = JBroken
       /\ calls[c].decision = "allowed"
       /\ calls[c].sent.fields["config"] = JBroken

C35_ClosedAtMostOnce == \A h \in Handles : conns[h].closeCalls <= 1

\* ------------------------------------------ claims on a rejected confirmation
\* requestConfirmation rejects for call c in this step.
Rejects(c) == calls[c].pc = "confirm" /\ calls'[c].decision = "rejected"

\* C37: a confirmation that rejects with "Stream cancelled by user" ends the
\* call with the cancellation error and no result; one that rejects with any
\* other error, the error a cancellation is signalled with set aside, while
\* neither signal is aborted ends it with an isError result; in both cases the
\* MCP call is not made.
C37_RejectedConfirmationNeverDispatches ==
    [][\A c \in Calls :
          Rejects(c) =>
             /\ calls'[c].pc = "done"
             /\ calls'[c].callToolCount = 0
             /\ calls'[c].sent = NotRun
             /\ calls'[c].error = "Stream cancelled by user" =>
                   /\ calls'[c].outcome = "cancelled"
                   /\ calls'[c].result = NotRun
             /\ (/\ ~CancellationMessage(ConfirmationError(calls'[c].error))
                 /\ ~aborted
                 /\ ~calls[c].ctrlAborted) =>
                   /\ calls'[c].outcome = "isError"
                   /\ calls'[c].result = ErrorResult(calls'[c].error)]_vars

\* One call's confirmation rejected with the user's cancellation and another's
\* with a closed connection, in a turn that was not aborted.
C37_Witness ==
    /\ ~aborted
    /\ \E c, d \in Calls :
          /\ calls[c].decision = "rejected"
          /\ calls[c].error = "Stream cancelled by user"
          /\ calls[c].outcome = "cancelled"
          /\ calls[d].decision = "rejected"
          /\ calls[d].error = "Connection closed"
          /\ calls[d].outcome = "isError"
          /\ calls[c].callToolCount + calls[d].callToolCount = 0

\* ------------------------------------------ claims on the engine's lifecycle
\* A call on the adapter that is not an initialize that threw, and one that did
\* not throw at all.
NotAFailedInitialize(call) == ~(call.op = "initialize" /\ call.ok = "no")
DidNotThrow(call) == call.ok # "no"

Alternates(adapterCalls) ==
    \A i \in 1..Len(adapterCalls) :
       adapterCalls[i].op = IF i % 2 = 1 THEN "initialize" ELSE "shutdown"

\* The last call on the adapter is an initialize.
LastIsInitialize(adapterCalls) ==
    /\ Len(adapterCalls) > 0
    /\ adapterCalls[Len(adapterCalls)].op = "initialize"

\* initialize() or shutdown() is called in this step.
Called(call) ==
    engine'.lifeCalls = engine.lifeCalls + 1 /\ engine'.call = call

\* The calls on the adapter that count, chosen by Counts, alternate from an
\* initialize on; an initialize() after an initialize that counts, and a
\* shutdown() before any initialize or after a shutdown that counts, make no
\* call on the adapter; an adapter.initialize that throws leaves the engine
\* uninitialized, and the next initialize() calls the adapter again.
Lifecycle(Counts(_)) ==
    /\ Alternates(SelectSeq(engine'.adapterCalls, Counts))
    /\ (Called("initialize")
           /\ LastIsInitialize(SelectSeq(engine.adapterCalls, Counts)))
          => engine'.adapterCalls = engine.adapterCalls
    /\ (Called("shutdown")
           /\ ~LastIsInitialize(SelectSeq(engine.adapterCalls, Counts)))
          => engine'.adapterCalls = engine.adapterCalls
    /\ (engine.life = "initializing"
           /\ engine'.adapterCalls[Len(engine'.adapterCalls)].ok = "no")
          => ~engine'.initialized
    /\ (Called("initialize")
           /\ Len(engine.adapterCalls) > 0
           /\ ~NotAFailedInitialize(engine.adapterCalls[Len(engine.adapterCalls)]))
          => engine'.adapterCalls
                = Append(engine.adapterCalls, Invoked("initialize"))

\* C38 as stated: the adapter's initialize and shutdown are invoked in strict
\* alternation from an initialize on, the initializes that threw set aside; a
\* repeated initialize(), and a shutdown() before any initialize or after a
\* shutdown, make no call on the adapter; an adapter.initialize that throws
\* leaves the engine uninitialized and a later initialize() retries.
C38_StrictAlternation == [][Lifecycle(NotAFailedInitialize)]_vars

\* C38, amended: the calls on the adapter that did not throw alternate from an
\* initialize on; an initialize() after such an initialize, and a shutdown()
\* before any such initialize or after such a shutdown, make no call on the
\* adapter; an adapter.initialize that throws leaves the engine uninitialized
\* and a later initialize() retries, as does a later shutdown() after an
\* adapter.shutdown that threw.
C38_CompletedCallsAlternate == [][Lifecycle(DidNotThrow)]_vars

\* After an initialize that threw and one that did not, a shutdown that threw
\* was retried: four calls on the adapter for five on the engine, one of them
\* a repeated initialize().
C38_Witness ==
    /\ engine.lifeCalls = 5
    /\ engine.life = "idle"
    /\ ~engine.initialized
    /\ engine.adapterCalls = <<[op |-> "initialize", ok |-> "no"],
                               [op |-> "initialize", ok |-> "yes"],
                               [op |-> "shutdown", ok |-> "no"],
                               [op |-> "shutdown", ok |-> "yes"]>>

\* ------------------------------------------ claims on the engine's transports
\* The calls that had createTransport invoked for key k and were not told of a
\* failure: the transports opened, or being opened, for k.
Opened(k) ==
    {r \in Runs : /\ engine.runs[r].key = k
                  /\ engine.runs[r].created
                  /\ ~engine.runs[r].threw}

\* C36: createTransport is invoked for a key only when adapter.mcp has no
\* session for it, at most once for a key whose session stays registered,
\* whatever the interleaving of the stream() and initializeSession() calls, and
\* initializeMCP throws when createTransport resolves with success false.
C36_OneTransportPerSession ==
    /\ \A k \in Keys : Cardinality(Opened(k)) <= 1
    /\ \A r \in Runs :
          /\ engine.runs[r].threw => engine.runs[r].created
          /\ (engine.runs[r].pc = "done" /\ engine.runs[r].created
                 /\ ~engine.runs[r].threw)
                => engine.runs[r].key \in engine.registered

====
